---- MODULE Spec2Model ----
(***************************************************************************)
(* A model of the storage/consistency core of ar4ie13/shortener: the       *)
(* in-memory backend (internal/repository/memory), the URL service and its *)
(* deletion aggregator (internal/service).                                 *)
(*                                                                         *)
(* Strings that the code inspects are modelled as sequences of tokens: a   *)
(* URL is a sequence over {"http", "ftp", ":", "/", "a", "b"}, the empty   *)
(* string is <<>>.  Slugs are opaque tokens; the empty slug is "".         *)
(***************************************************************************)
EXTENDS Integers, Sequences, FiniteSets, TLC

\* ------------------------------------------------------------------ bounds
MaxWrites == 3
MaxSubmits == 2
MaxTokenLen == 2

\* --------------------------------------------------------- program constants
shortURLLen == 8
MaxAttempts == 3

\* ------------------------------------------------------------------- values
Owners == {"u1", "u2"}
Slugs == {"s1", "s2"}

URLa == <<"http", ":", "/", "/", "a">>
URLb == <<"http", ":", "/", "/", "b">>
RawURLs == {URLa, URLa \o <<"/">>, URLb, <<"/">>}
BatchRawURLs == {URLa, URLb \o <<"/">>, <<"/">>}

\* myerrors
Nil == "nil"
ErrNotFound == "ErrNotFound"
ErrURLExist == "ErrURLExist"
ErrEmptyShortURLorURL == "ErrEmptyShortURLorURL"
ErrShortURLExist == "ErrShortURLExist"
ErrInvalidUserUUID == "ErrInvalidUserUUID"
ErrShortURLIsDeleted == "ErrShortURLIsDeleted"
ErrEmptyURL == "ErrEmptyURL"
ErrWrongHTTPScheme == "ErrWrongHTTPScheme"
ErrMustIncludeHost == "ErrMustIncludeHost"
ErrInvalidURLFormat == "ErrInvalidURLFormat"
ErrEmptyID == "ErrEmptyID"
ErrIO == "cannot open file"
ErrFailedToGetURL == "failed to get URL"
ErrShortURLLength == "ErrShortURLLength"

\* ------------------------------------------------------------- Go map helpers
EmptyMap == [x \in {} |-> 0]
Has(f, k) == k \in DOMAIN f
Put(f, k, v) == [x \in (DOMAIN f) \cup {k} |-> IF x = k THEN v ELSE f[x]]

\* ------------------------------------------------------------ memory backend
NewMemStorage ==
    [ SlugMemStore          |-> EmptyMap,
      URLMemStore           |-> EmptyMap,
      UserUUIDURLMemStore   |-> EmptyMap,
      UUIDMemStore          |-> EmptyMap,
      UserUUIDSlugMemStore  |-> EmptyMap,
      IsSlugDeletedMemStore |-> EmptyMap ]

\* repo.IsSlugDeletedMemStore[slug]: a missing key reads as false
IsSlugDeleted(m, slug) ==
    Has(m.IsSlugDeletedMemStore, slug) /\ m.IsSlugDeletedMemStore[slug]

MemGetURL(m, shortURL) ==
    IF Has(m.SlugMemStore, shortURL)
    THEN IF IsSlugDeleted(m, shortURL)
         THEN [url |-> <<>>, err |-> ErrShortURLIsDeleted]
         ELSE [url |-> m.SlugMemStore[shortURL], err |-> Nil]
    ELSE [url |-> <<>>, err |-> ErrNotFound]

MemGetShortURL(m, originalURL) ==
    IF Has(m.URLMemStore, originalURL)
       /\ ~IsSlugDeleted(m, m.URLMemStore[originalURL])
    THEN [slug |-> m.URLMemStore[originalURL], err |-> Nil]
    ELSE [slug |-> "", err |-> ErrNotFound]

existsURL(m, url) ==
    Has(m.URLMemStore, url) /\ ~IsSlugDeleted(m, m.URLMemStore[url])

\* existsShortURL without its check
existsShortURLNever(m, shortURL) == FALSE

existsShortURL(m, shortURL) ==
    Has(m.SlugMemStore, shortURL) /\ ~IsSlugDeleted(m, shortURL)

\* uuid.New(): a value equal to no key in use and to no correlation ID
NewUUID(m) == 1 + Cardinality({k \in DOMAIN m.UUIDMemStore : k > 0})

\* the k-th of the six map writes of Save, in source order
WriteStep(m, k, userUUID, id, shortURL, url) ==
    LET byURL  == IF Has(m.UserUUIDURLMemStore, userUUID)
                  THEN m.UserUUIDURLMemStore[userUUID] ELSE EmptyMap
        bySlug == IF Has(m.UserUUIDSlugMemStore, userUUID)
                  THEN m.UserUUIDSlugMemStore[userUUID] ELSE EmptyMap
    IN CASE k = 1 -> [m EXCEPT !.SlugMemStore = Put(@, shortURL, url)]
         [] k = 2 -> [m EXCEPT !.URLMemStore = Put(@, url, shortURL)]
         [] k = 3 -> [m EXCEPT !.UserUUIDURLMemStore =
                                   Put(@, userUUID, Put(byURL, url, shortURL))]
         [] k = 4 -> [m EXCEPT !.UUIDMemStore = Put(@, id, shortURL)]
         [] k = 5 -> [m EXCEPT !.UserUUIDSlugMemStore =
                                   Put(@, userUUID, Put(bySlug, shortURL, url))]
         [] k = 6 -> [m EXCEPT !.IsSlugDeletedMemStore = Put(@, shortURL, FALSE)]

NumWrites == 6

RECURSIVE WriteFrom(_, _, _, _, _, _)
WriteFrom(m, k, userUUID, id, shortURL, url) ==
    IF k > NumWrites THEN m
    ELSE WriteFrom(WriteStep(m, k, userUUID, id, shortURL, url), k + 1,
                   userUUID, id, shortURL, url)

\* all the map writes of Save, and of one iteration of SaveBatch's second loop
WriteRecord(m, userUUID, id, shortURL, url) ==
    WriteFrom(m, 1, userUUID, id, shortURL, url)

\* the checks of Save with the slug looked up before the URL
SaveCheckSlugFirst(m, shortURL, url) ==
    IF shortURL = "" \/ url = <<>> THEN ErrEmptyShortURLorURL
    ELSE IF existsShortURL(m, shortURL) THEN ErrShortURLExist
    ELSE IF existsURL(m, url) THEN ErrURLExist
    ELSE Nil

\* the rejection of one (shortURL, url) pair, checked against m
SaveCheck(m, shortURL, url) ==
    IF shortURL = "" \/ url = <<>> THEN ErrEmptyShortURLorURL
    ELSE IF existsURL(m, url) THEN ErrURLExist
    ELSE IF existsShortURL(m, shortURL) THEN ErrShortURLExist
    ELSE Nil

MemSave(m, userUUID, shortURL, url) ==
    LET e == SaveCheck(m, shortURL, url)
    IN IF e # Nil THEN [err |-> e, m |-> m]
       ELSE [err |-> Nil, m |-> WriteRecord(m, userUUID, NewUUID(m), shortURL, url)]

\* first loop of SaveBatch: every item is checked against the maps as they
\* were when the call started
RECURSIVE BatchCheck(_, _, _)
BatchCheck(m, batch, i) ==
    IF i > Len(batch) THEN Nil
    ELSE LET e == SaveCheck(m, batch[i].ShortURL, batch[i].OriginalURL)
         IN IF e # Nil THEN e ELSE BatchCheck(m, batch, i + 1)

RECURSIVE BatchWrite(_, _, _, _)
BatchWrite(m, userUUID, batch, i) ==
    IF i > Len(batch) THEN m
    ELSE BatchWrite(
             WriteRecord(m, userUUID, batch[i].UUID, batch[i].ShortURL,
                         batch[i].OriginalURL),
             userUUID, batch, i + 1)

\* make(URLMemStore) / make(SlugMemStore) for an owner seen for the first time
EnsureOwner(m, userUUID) ==
    [m EXCEPT
       !.UserUUIDURLMemStore =
           IF Has(@, userUUID) THEN @ ELSE Put(@, userUUID, EmptyMap),
       !.UserUUIDSlugMemStore =
           IF Has(@, userUUID) THEN @ ELSE Put(@, userUUID, EmptyMap)]

\* a SaveBatch that has written the items before the first rejected one
\* when it returns the error
MemSaveBatchWritingAhead(m, userUUID, batch) ==
    LET e == BatchCheck(m, batch, 1)
        bad == {i \in DOMAIN batch :
                   SaveCheck(m, batch[i].ShortURL, batch[i].OriginalURL) # Nil}
        first == CHOOSE i \in bad : \A j \in bad : i <= j
    IN IF e # Nil
       THEN [err |-> e,
             m |-> BatchWrite(EnsureOwner(m, userUUID), userUUID,
                              SubSeq(batch, 1, first - 1), 1)]
       ELSE [err |-> Nil,
             m |-> BatchWrite(EnsureOwner(m, userUUID), userUUID, batch, 1)]

MemSaveBatch(m, userUUID, batch) ==
    LET e == BatchCheck(m, batch, 1)
    IN IF e # Nil THEN [err |-> e, m |-> m]
       ELSE [err |-> Nil, m |-> BatchWrite(EnsureOwner(m, userUUID), userUUID, batch, 1)]

\* the non-deleted entries of the owner's index, or ErrNotFound for an owner
\* without an index
MemGetUserShortURLs(m, userUUID) ==
    IF ~Has(m.UserUUIDSlugMemStore, userUUID)
    THEN [urls |-> EmptyMap, err |-> ErrNotFound]
    ELSE LET idx == m.UserUUIDSlugMemStore[userUUID]
         IN [urls |-> [s \in {x \in DOMAIN idx : ~IsSlugDeleted(m, x)} |-> idx[s]],
             err |-> Nil]

\* inner loop of DeleteUserShortURLs: the slugs of one owner
RECURSIVE MarkDeleted(_, _, _, _)
MarkDeleted(m, userUUID, slugs, i) ==
    IF i > Len(slugs) THEN m
    ELSE LET idx == m.UserUUIDSlugMemStore[userUUID]
             hit == Has(idx, slugs[i]) /\ idx[slugs[i]] # <<>>
         IN MarkDeleted(
                IF hit
                THEN [m EXCEPT !.IsSlugDeletedMemStore = Put(@, slugs[i], TRUE)]
                ELSE m,
                userUUID, slugs, i + 1)

\* outer loop: order is the order in which range visits the keys of the map
RECURSIVE DeleteLoop(_, _, _, _)
DeleteLoop(m, toDelete, order, i) ==
    IF i > Len(order) THEN [err |-> Nil, m |-> m]
    ELSE IF ~Has(m.UserUUIDSlugMemStore, order[i])
         THEN [err |-> ErrInvalidUserUUID, m |-> m]
         ELSE DeleteLoop(MarkDeleted(m, order[i], toDelete[order[i]], 1),
                         toDelete, order, i + 1)

\* a DeleteUserShortURLs that rejects a call naming a slug already deleted
MemDeleteUserShortURLsOnce(m, toDelete, order) ==
    IF \E o \in DOMAIN toDelete : \E k \in DOMAIN toDelete[o] :
          IsSlugDeleted(m, toDelete[o][k])
    THEN [err |-> ErrNotFound, m |-> m]
    ELSE DeleteLoop(m, toDelete, order, 1)

MemDeleteUserShortURLs(m, toDelete, order) == DeleteLoop(m, toDelete, order, 1)

\* the orders in which a Go range may visit the keys of a map
KeyOrders(f) ==
    {o \in [1..Cardinality(DOMAIN f) -> DOMAIN f] :
        \A i, j \in DOMAIN o : i # j => o[i] # o[j]}

\* ------------------------------------------------------------------ service
\* strings.TrimRight(urlLink, "/")
RECURSIVE TrimRight(_)
TrimRight(u) ==
    IF u # <<>> /\ u[Len(u)] = "/" THEN TrimRight(SubSeq(u, 1, Len(u) - 1)) ELSE u

Words == {"http", "ftp", "a", "b"}

\* the tokens of u from position i up to (not including) the next "/"
RECURSIVE UpToSlash(_, _)
UpToSlash(u, i) ==
    IF i > Len(u) \/ u[i] = "/" THEN <<>> ELSE <<u[i]>> \o UpToSlash(u, i + 1)

HasPrefix2(u) == Len(u) >= 2 /\ u[1] = "/" /\ u[2] = "/"
HasPrefix3(u) == Len(u) >= 3 /\ u[1] = "/" /\ u[2] = "/" /\ u[3] = "/"

\* net/url.Parse as far as SaveURL reads its result: the error, Scheme, Host
ParseURL(u) ==
    IF u # <<>> /\ u[1] = ":"
    THEN [err |-> ErrInvalidURLFormat, Scheme |-> "", Host |-> <<>>]
    ELSE LET hasScheme == Len(u) >= 2 /\ u[1] \in Words /\ u[2] = ":"
             scheme == IF hasScheme THEN u[1] ELSE ""
             rest == IF hasScheme THEN SubSeq(u, 3, Len(u)) ELSE u
             auth == (scheme # "" \/ ~HasPrefix3(rest)) /\ HasPrefix2(rest)
         IN [err |-> Nil, Scheme |-> scheme,
             Host |-> IF auth THEN UpToSlash(rest, 3) ELSE <<>>]

\* the checks without the one of the host
ValidateParsedNoHost(p) ==
    IF p.err # Nil THEN ErrInvalidURLFormat
    ELSE IF p.Scheme # "http" /\ p.Scheme # "https" THEN ErrWrongHTTPScheme
    ELSE Nil

\* the checks of a parsed URL shared by SaveURL and SaveBatch
ValidateParsed(p) ==
    IF p.err # Nil THEN ErrInvalidURLFormat
    ELSE IF p.Scheme # "http" /\ p.Scheme # "https" THEN ErrWrongHTTPScheme
    ELSE IF p.Host = <<>> THEN ErrMustIncludeHost
    ELSE Nil

\* rnd is the symbol sequence drawn from rand.Intn, abstracted to one token
generateShortURL(length, rnd) ==
    IF length <= 0 THEN [slug |-> "", err |-> ErrShortURLLength]
    ELSE [slug |-> rnd, err |-> Nil]

\* FileStorage.Save as the maps see it: MemStorage.Save, then Store, which
\* fails with an I/O error when fault is TRUE (the maps keep the record)
FileSave(m, userUUID, shortURL, url, fault) ==
    LET r == MemSave(m, userUUID, shortURL, url)
    IN IF r.err = Nil /\ fault THEN [err |-> ErrIO, m |-> r.m] ELSE r

\* FileStorage.SaveBatch as the maps see it: MemStorage.SaveBatch, then the
\* file is opened and written, which fails with an I/O error when fault is
\* TRUE (the maps keep the records)
FileSaveBatch(m, userUUID, batch, fault) ==
    LET r == MemSaveBatch(m, userUUID, batch)
    IN IF r.err = Nil /\ fault THEN [err |-> ErrIO, m |-> r.m] ELSE r

\* no Store fails: the memory backend, or a file that can be written
NoFaults == [k \in 1..MaxAttempts |-> FALSE]

\* the attempt loop giving up one attempt early
RECURSIVE SaveLoopOneShort(_, _, _, _, _, _, _)
SaveLoopOneShort(m, userUUID, urlLink, rnd, faults, attempt, calls) ==
    LET g == generateShortURL(shortURLLen, rnd[attempt])
    IN IF g.err # Nil
       THEN IF attempt = MaxAttempts - 1
            THEN [slug |-> "", err |-> g.err, m |-> m, calls |-> calls]
            ELSE SaveLoopOneShort(m, userUUID, urlLink, rnd, faults, attempt + 1, calls)
       ELSE LET r == FileSave(m, userUUID, g.slug, urlLink, faults[attempt])
            IN IF r.err = Nil
               THEN [slug |-> g.slug, err |-> Nil, m |-> r.m, calls |-> calls + 1]
               ELSE IF r.err = ErrURLExist
               THEN LET f == MemGetShortURL(r.m, urlLink)
                    IN IF f.err # Nil
                       THEN [slug |-> "", err |-> ErrNotFound, m |-> r.m,
                             calls |-> calls + 1]
                       ELSE [slug |-> f.slug, err |-> ErrURLExist, m |-> r.m,
                             calls |-> calls + 1]
               ELSE IF attempt = MaxAttempts - 1
               THEN [slug |-> "", err |-> r.err, m |-> r.m, calls |-> calls + 1]
               ELSE SaveLoopOneShort(r.m, userUUID, urlLink, rnd, faults, attempt + 1, calls + 1)

\* the attempt loop of SaveURL; calls counts the repo.Save calls made so far
RECURSIVE SaveLoop(_, _, _, _, _, _, _)
SaveLoop(m, userUUID, urlLink, rnd, faults, attempt, calls) ==
    LET g == generateShortURL(shortURLLen, rnd[attempt])
    IN IF g.err # Nil
       THEN IF attempt = MaxAttempts
            THEN [slug |-> "", err |-> g.err, m |-> m, calls |-> calls]
            ELSE SaveLoop(m, userUUID, urlLink, rnd, faults, attempt + 1, calls)
       ELSE LET r == FileSave(m, userUUID, g.slug, urlLink, faults[attempt])
            IN IF r.err = Nil
               THEN [slug |-> g.slug, err |-> Nil, m |-> r.m, calls |-> calls + 1]
               ELSE IF r.err = ErrURLExist
               THEN LET f == MemGetShortURL(r.m, urlLink)
                    IN IF f.err # Nil
                       THEN [slug |-> "", err |-> ErrNotFound, m |-> r.m,
                             calls |-> calls + 1]
                       ELSE [slug |-> f.slug, err |-> ErrURLExist, m |-> r.m,
                             calls |-> calls + 1]
               ELSE IF attempt = MaxAttempts
               THEN [slug |-> "", err |-> r.err, m |-> r.m, calls |-> calls + 1]
               ELSE SaveLoop(r.m, userUUID, urlLink, rnd, faults, attempt + 1, calls + 1)

\* SaveURL that makes its last attempt at once: no retry
SvcSaveURLOnNoRetry(m, userUUID, rawURL, rnd, faults) ==
    LET urlLink == TrimRight(rawURL)
        v == ValidateParsed(ParseURL(urlLink))
    IN IF urlLink = <<>>
       THEN [slug |-> "", err |-> ErrEmptyURL, m |-> m, calls |-> 0]
       ELSE IF v # Nil
       THEN [slug |-> "", err |-> v, m |-> m, calls |-> 0]
       ELSE SaveLoop(m, userUUID, urlLink, rnd, faults, MaxAttempts, 0)

\* SaveURL over a backend whose Save fails with an I/O error at the attempts
\* that faults marks
SvcSaveURLOn(m, userUUID, rawURL, rnd, faults) ==
    LET urlLink == TrimRight(rawURL)
        v == ValidateParsed(ParseURL(urlLink))
    IN IF urlLink = <<>>
       THEN [slug |-> "", err |-> ErrEmptyURL, m |-> m, calls |-> 0]
       ELSE IF v # Nil
       THEN [slug |-> "", err |-> v, m |-> m, calls |-> 0]
       ELSE SaveLoop(m, userUUID, urlLink, rnd, faults, 1, 0)

\* SaveURL over the memory backend
SvcSaveURL(m, userUUID, rawURL, rnd) ==
    SvcSaveURLOn(m, userUUID, rawURL, rnd, NoFaults)

\* the per-item loop looking at the first item only
BatchValidateFirst(batch, rnd, i) ==
    IF batch = <<>> THEN Nil
    ELSE LET g == generateShortURL(shortURLLen, rnd[1])
             urlLink == TrimRight(batch[1].OriginalURL)
             v == ValidateParsed(ParseURL(batch[1].OriginalURL))
         IN IF g.err # Nil THEN g.err
            ELSE IF urlLink = <<>> THEN ErrEmptyURL
            ELSE v

\* the per-item loop of SaveBatch: the first error, or Nil
RECURSIVE BatchValidate(_, _, _)
BatchValidate(batch, rnd, i) ==
    IF i > Len(batch) THEN Nil
    ELSE LET g == generateShortURL(shortURLLen, rnd[i])
             urlLink == TrimRight(batch[i].OriginalURL)
             v == ValidateParsed(ParseURL(batch[i].OriginalURL))
         IN IF g.err # Nil THEN g.err
            ELSE IF urlLink = <<>> THEN ErrEmptyURL
            ELSE IF v # Nil THEN v
            ELSE BatchValidate(batch, rnd, i + 1)

BatchResult(batch, rnd) ==
    [i \in 1..Len(batch) |->
        [UUID |-> batch[i].UUID,
         ShortURL |-> generateShortURL(shortURLLen, rnd[i]).slug,
         OriginalURL |-> TrimRight(batch[i].OriginalURL)]]

SvcSaveBatch(m, userUUID, batch, rnd) ==
    LET v == BatchValidate(batch, rnd, 1)
    IN IF v # Nil THEN [result |-> <<>>, err |-> v, m |-> m, calls |-> 0]
       ELSE LET r == MemSaveBatch(m, userUUID, BatchResult(batch, rnd))
            IN IF r.err # Nil
               THEN [result |-> <<>>, err |-> r.err, m |-> r.m, calls |-> 1]
               ELSE [result |-> BatchResult(batch, rnd), err |-> Nil, m |-> r.m,
                     calls |-> 1]

\* GetURL reporting every backend failure as ErrNotFound
SvcGetURLNotFoundOnly(m, userUUID, shortURL) ==
    IF shortURL = "" THEN [url |-> <<>>, err |-> ErrEmptyID, calls |-> 0]
    ELSE LET r == MemGetURL(m, shortURL)
         IN IF r.url = <<>> \/ r.err # Nil
            THEN [url |-> <<>>, err |-> ErrNotFound, calls |-> 1]
            ELSE [url |-> r.url, err |-> Nil, calls |-> 1]

\* Service.GetURL; calls counts the repo.GetURL calls.  The error wraps the
\* backend's, or nothing when the backend returned "" without an error
SvcGetURL(m, userUUID, shortURL) ==
    IF shortURL = "" THEN [url |-> <<>>, err |-> ErrEmptyID, calls |-> 0]
    ELSE LET r == MemGetURL(m, shortURL)
         IN IF r.url = <<>> \/ r.err # Nil
            THEN [url |-> <<>>,
                  err |-> IF r.err = Nil THEN ErrFailedToGetURL ELSE r.err,
                  calls |-> 1]
            ELSE [url |-> r.url, err |-> Nil, calls |-> 1]

SvcGetUserShortURLs(m, userUUID) == MemGetUserShortURLs(m, userUUID)

\* -------------------------------------------------------------------- state
VARIABLES
    repo,     \* the MemStorage behind the service
    nwrites,  \* the records written and the deleting calls made so far
    call,     \* per goroutine: the Save call it is in, and where in it
    base,     \* the store as it was when the concurrent calls began
    fileLog,  \* the lines of the file behind FileStorage
    urlMapping, \* FileStorage.urlMapping: the row struct every write reuses
    gen,      \* the last call of generateShortURL: its length and result
    agg,      \* deleteShortURLs: where the loop is, and its call in progress
    sub,      \* per goroutine: the SendShortURLForDelete call it is in
    unlisted, \* the channels made that the slice Service.toDeleteChan lacks
    toDeleteChan, \* Service.toDeleteChan: per channel made, its buffer
    ch,       \* deleteShortURLs' ch: "initial", or "collected" after a tick
    fwd,      \* per submission channel, the goroutines collectShortURLs started
    pending,  \* deleteShortURLs' shortURLsForDelete
    submitted, \* per owner and slug, how often it was handed to
              \* SendShortURLForDelete
    passed,   \* per owner and slug, how often it was in an argument of
              \* Repository.DeleteUserShortURLs
    db,       \* the rows of the table urls of the postgres backend
    owed      \* the (owner, slug) submitted while a live record of the owner

aggVars == <<toDeleteChan, ch, fwd, pending, submitted, passed, owed>>
fileVars == <<fileLog, urlMapping>>
auxVars == <<gen, agg, sub, unlisted>>
vars == <<repo, nwrites, call, base, fileVars, aggVars, auxVars, db>>
seqVars == <<call, base, fileVars, aggVars, auxVars, db>>

\* what the model draws as inputs
InsertSlugs == Slugs \cup {""}
InsertURLs == {URLa, URLb, <<>>}
SlugLists == {<<s>> : s \in Slugs} \cup {<<"s1", "s2">>}
DeleteMaps == UNION {[os -> SlugLists] : os \in (SUBSET (Owners)) \ {{}}}
\* the batches of n items, carrying the distinct correlation IDs -1, -2, ...
Batches(n) ==
    {[i \in 1..n |-> [UUID |-> -i, OriginalURL |-> us[i]]] :
        us \in [1..n -> BatchRawURLs]}
RepoItems ==
    [ShortURL : Slugs, OriginalURL : {URLa, URLb}]
        \cup {[ShortURL |-> "", OriginalURL |-> URLa]}
RepoBatches(n) ==
    {[i \in 1..n |-> [UUID |-> -i, ShortURL |-> it[i].ShortURL,
                      OriginalURL |-> it[i].OriginalURL]] :
        it \in [1..n -> RepoItems]}

NoCounts == [o \in Owners |-> [s \in Slugs |-> 0]]

\* the zero model.URL that NewFileStorage puts in urlMapping
NoRow ==
    [UUID |-> 0, UserUUID |-> "", ShortURL |-> "", OriginalURL |-> <<>>,
     IsDeleted |-> FALSE]

\* before the first call of generateShortURL
NoGen == [pc |-> "idle", length |-> 0, shortURL |-> <<>>, i |-> 0, err |-> Nil]

\* deleteShortURLs waiting in its select, no DeleteUserShortURLs call made
\* since the last tick
AtSelect ==
    [pc |-> "select", calls |-> 0, active |-> 0, arg |-> EmptyMap,
     units |-> <<>>, from |-> <<>>, err |-> Nil, left |-> EmptyMap,
     failed |-> {}]

\* a goroutine that is not in SendShortURLForDelete
NoSubmit == [pc |-> "idle", idx |-> 0, seen |-> {}]

Procs == {"p1", "p2"}
Idle == [pc |-> "idle", k |-> 0, owner |-> "", slug |-> "", url |-> <<>>, err |-> Nil]

Init ==
    /\ repo = NewMemStorage
    /\ nwrites = 0
    /\ call = [p \in Procs |-> Idle]
    /\ base = NewMemStorage
    /\ fileLog = <<>>
    /\ urlMapping = NoRow
    /\ gen = NoGen
    /\ agg = AtSelect
    /\ sub = [p \in Procs |-> NoSubmit]
    /\ unlisted = {}
    /\ toDeleteChan = <<>>
    /\ ch = "initial"
    /\ fwd = <<>>
    /\ pending = EmptyMap
    /\ submitted = NoCounts
    /\ passed = NoCounts
    /\ owed = {}
    /\ db = {}

\* a call that leaves the store as m after writing (or marking) cost records
\* is made only while the total stays within MaxWrites
Affordable(m, cost) == m = repo \/ nwrites + cost <= MaxWrites
Spent(m, cost) == IF m = repo THEN nwrites ELSE nwrites + cost

\* Service.SaveURL
SaveURL ==
    \E o \in Owners, raw \in RawURLs, rnd \in [1..MaxAttempts -> Slugs] :
        \E r \in {SvcSaveURL(repo, o, raw, rnd)} :
           /\ Affordable(r.m, 1)
           /\ repo' = r.m
           /\ nwrites' = Spent(r.m, 1)
           /\ UNCHANGED seqVars

\* Service.SaveBatch
SaveBatch ==
    \E o \in Owners, n \in 0..(MaxWrites - nwrites) :
      \E batch \in Batches(n), rnd \in [1..n -> Slugs] :
        \E r \in {SvcSaveBatch(repo, o, batch, rnd)} :
           /\ Affordable(r.m, n)
           /\ repo' = r.m
           /\ nwrites' = Spent(r.m, n)
           /\ UNCHANGED seqVars

\* MemStorage.Save called directly (insert)
Insert ==
    \E o \in Owners, s \in InsertSlugs, u \in InsertURLs :
        \E r \in {MemSave(repo, o, s, u)} :
           /\ Affordable(r.m, 1)
           /\ repo' = r.m
           /\ nwrites' = Spent(r.m, 1)
           /\ UNCHANGED seqVars

\* MemStorage.SaveBatch called directly (insertBatch)
InsertBatch ==
    \E o \in Owners, n \in 0..(MaxWrites - nwrites) :
      \E batch \in RepoBatches(n) :
        \E r \in {MemSaveBatch(repo, o, batch)} :
           /\ Affordable(r.m, n)
           /\ repo' = r.m
           /\ nwrites' = Spent(r.m, n)
           /\ UNCHANGED seqVars

\* MemStorage.DeleteUserShortURLs called directly (softDelete)
SoftDelete ==
    \E toDelete \in DeleteMaps :
      \E order \in KeyOrders(toDelete) :
        \E r \in {MemDeleteUserShortURLs(repo, toDelete, order)} :
           /\ Affordable(r.m, 1)
           /\ repo' = r.m
           /\ nwrites' = Spent(r.m, 1)
           /\ UNCHANGED seqVars

\* the service over the memory backend, one call at a time
Next ==
    \/ SaveURL
    \/ SaveBatch
    \/ SoftDelete

Spec == Init /\ [][Next]_vars

\* MemStorage.DeleteUserShortURLs called directly, not counted: a call only
\* sets flags, so that the records written bound the calls that change the
\* store
SoftDeleteFlags ==
    \E toDelete \in DeleteMaps :
      \E order \in KeyOrders(toDelete) :
        \E r \in {MemDeleteUserShortURLs(repo, toDelete, order)} :
           /\ r.m # repo
           /\ repo' = r.m
           /\ UNCHANGED <<nwrites, seqVars>>

\* the service over the memory backend, the writes alone being counted
NextStore ==
    \/ SaveURL
    \/ SaveBatch
    \/ SoftDeleteFlags

SpecStore == Init /\ [][NextStore]_vars

\* the memory backend alone, one call at a time
NextRepo ==
    \/ Insert
    \/ InsertBatch
    \/ SoftDelete

SpecRepo == Init /\ [][NextRepo]_vars

\* the uuid.New() of Store: a value equal to no other row's and to no key of
\* the memory index
NewRowUUID(log) == 100 + Len(log)

\* the line FileStorage.Store appends, under fs.mu
Line(id, userUUID, shortURL, url, deleted) ==
    [UUID |-> id, UserUUID |-> userUUID, ShortURL |-> shortURL, OriginalURL |-> url,
     IsDeleted |-> deleted]

\* the service over FileStorage, whose Store may fail
SaveURLOnFile ==
    \E o \in Owners, raw \in {URLa, URLb \o <<"/">>},
       rnd \in [1..MaxAttempts -> Slugs], faults \in [1..MaxAttempts -> BOOLEAN] :
        \E r \in {SvcSaveURLOn(repo, o, raw, rnd, faults)} :
           /\ Affordable(r.m, 1)
           /\ repo' = r.m
           /\ nwrites' = Spent(r.m, 1)
           /\ fileLog' = IF r.err = Nil
                         THEN Append(fileLog, Line(NewRowUUID(fileLog), o, r.slug,
                                                   TrimRight(raw), FALSE))
                         ELSE fileLog
           /\ urlMapping' = IF r.m # repo
                            THEN Line(NewRowUUID(fileLog), o,
                                      r.m.URLMemStore[TrimRight(raw)],
                                      TrimRight(raw), FALSE)
                            ELSE urlMapping
           /\ UNCHANGED <<call, base, db, aggVars, auxVars>>

\* the rows FileStorage.SaveBatch appends: the items with their own UUIDs
BatchLines(userUUID, batch) ==
    [i \in 1..Len(batch) |->
        Line(batch[i].UUID, userUUID, batch[i].ShortURL, batch[i].OriginalURL, FALSE)]

\* Service.SaveBatch over FileStorage.SaveBatch: the maps are written first,
\* then the file is opened, which fails when fault is TRUE
SaveBatchOnFile ==
    \E o \in Owners, n \in 0..(MaxWrites - nwrites), fault \in BOOLEAN :
      \E batch \in Batches(n), rnd \in [1..n -> Slugs] :
        \E r \in {SvcSaveBatch(repo, o, batch, rnd)} :
           /\ Affordable(r.m, n)
           /\ repo' = r.m
           /\ nwrites' = Spent(r.m, n)
           /\ fileLog' = IF r.err = Nil /\ ~fault
                         THEN fileLog \o BatchLines(o, r.result)
                         ELSE fileLog
           /\ urlMapping' = IF r.err = Nil /\ ~fault /\ n > 0
                            THEN BatchLines(o, r.result)[n]
                            ELSE urlMapping
           /\ UNCHANGED <<call, base, db, aggVars, auxVars>>

NextFile == SaveURLOnFile \/ SaveBatchOnFile

SpecFile == Init /\ [][NextFile]_vars

\* --------------------------------------- FileStorage as a repository
\* lines 147-159 of LoadFile: one decoded row written into the maps
LoadRow(m, row) ==
    [WriteRecord(m, row.UserUUID, row.UUID, row.ShortURL, row.OriginalURL)
        EXCEPT !.IsSlugDeletedMemStore = Put(@, row.ShortURL, row.IsDeleted)]

\* a line of the file that is not a JSON object
Corrupt == [garbage |-> TRUE]
ErrDecode == "error decoding JSON"

\* the decoder loop of LoadFile from line i of the file on
RECURSIVE LoadFrom(_, _, _)
LoadFrom(m, log, i) ==
    IF i > Len(log) THEN [err |-> Nil, m |-> m]
    ELSE IF log[i] = Corrupt THEN [err |-> ErrDecode, m |-> m]
    ELSE LoadFrom(LoadRow(m, log[i]), log, i + 1)

\* NewFileStorage followed by LoadFile over a file that holds log; a file
\* that cannot be read for another reason than not existing is an error
LoadFile(log, readable) ==
    IF ~readable THEN [err |-> ErrIO, m |-> NewMemStorage]
    ELSE LoadFrom(NewMemStorage, log, 1)

\* FileStorage.Save: the maps, then the row appended by Store
FsSave(m, log, um, userUUID, shortURL, url) ==
    LET r == MemSave(m, userUUID, shortURL, url)
        row == Line(NewRowUUID(log), userUUID, shortURL, url, FALSE)
    IN IF r.err # Nil
       THEN [err |-> r.err, m |-> r.m, log |-> log, um |-> um]
       ELSE [err |-> Nil, m |-> r.m, log |-> Append(log, row), um |-> row]

\* FileStorage.SaveBatch: the maps, then one row per item
FsSaveBatch(m, log, um, userUUID, batch) ==
    LET r == MemSaveBatch(m, userUUID, batch)
    IN IF r.err # Nil
       THEN [err |-> r.err, m |-> r.m, log |-> log, um |-> um]
       ELSE [err |-> Nil, m |-> r.m, log |-> log \o BatchLines(userUUID, batch),
             um |-> IF batch = <<>> THEN um
                    ELSE BatchLines(userUUID, batch)[Len(batch)]]

\* the orders in which lines 229-230 may visit the entries of the owners'
\* indexes: the owners in the order oo, from the i-th on
RECURSIVE RowsFor(_, _, _)
RowsFor(m, oo, i) ==
    IF i > Len(oo) THEN {<<>>}
    ELSE {[k \in 1..Len(so) |-> <<oo[i], so[k]>>] \o rest :
            so \in KeyOrders(m.UserUUIDSlugMemStore[oo[i]]),
            rest \in RowsFor(m, oo, i + 1)}

RowOrders(m) ==
    UNION {RowsFor(m, oo, 1) : oo \in KeyOrders(m.UserUUIDSlugMemStore)}

\* lines 231-240 for the entry (userUUID, shortURL): urlMapping as the loop
\* over UUIDMemStore can leave it.  ShortURL and UUID are assigned only when
\* some UUID maps to the slug (the last such UUID the range visits);
\* otherwise they keep what urlMapping held
RewriteRow(m, um, userUUID, shortURL) ==
    LET ids == {id \in DOMAIN m.UUIDMemStore : m.UUIDMemStore[id] = shortURL}
        found == IF ids = {} THEN {um}
                 ELSE {[um EXCEPT !.ShortURL = shortURL, !.UUID = id] : id \in ids}
    IN {[f EXCEPT !.UserUUID = userUUID,
                  !.OriginalURL = m.UserUUIDSlugMemStore[userUUID][shortURL],
                  !.IsDeleted = IsSlugDeleted(m, shortURL)] : f \in found}

\* lines 229-255: the files the rewrite can produce, and urlMapping after it
RECURSIVE Rewrites(_, _, _, _, _)
Rewrites(m, um, rows, i, acc) ==
    IF i > Len(rows) THEN {[log |-> acc, um |-> um]}
    ELSE UNION {Rewrites(m, row, rows, i + 1, Append(acc, row)) :
                   row \in RewriteRow(m, um, rows[i][1], rows[i][2])}

\* FileStorage.DeleteUserShortURLs: the outcomes of the call. The maps are
\* marked first; the file is truncated and rewritten only if that succeeded
FsDeleteUserShortURLs(m, log, um, toDelete, order) ==
    LET r == MemDeleteUserShortURLs(m, toDelete, order)
    IN IF r.err # Nil
       THEN {[err |-> r.err, m |-> r.m, log |-> log, um |-> um]}
       ELSE {[err |-> Nil, m |-> r.m, log |-> w.log, um |-> w.um] :
                w \in UNION {Rewrites(r.m, um, rows, 1, <<>>) :
                                rows \in RowOrders(r.m)}}

\* ------------------------------------------------ the slug generator
\* the constant randGenerateSymbols, one symbol per element
randGenerateSymbols ==
    <<"a", "b", "c", "d", "e", "f", "g", "h", "i", "j", "k", "l", "m", "n",
      "o", "p", "q", "r", "s", "t", "u", "v", "w", "x", "y", "z",
      "A", "B", "C", "D", "E", "F", "G", "H", "I", "J", "K", "L", "M", "N",
      "O", "P", "Q", "R", "S", "T", "U", "V", "W", "X", "Y", "Z">>

\* the zero byte of a slice that make() has just allocated
NUL == "\\0"

\* the values of the length argument
GenLengths == -1..MaxTokenLen

\* lines 181-185: the length check and the allocation
GenCall ==
    /\ gen.pc \in {"idle", "done"}
    /\ \E length \in GenLengths :
          gen' = IF length <= 0
                 THEN [pc |-> "done", length |-> length, shortURL |-> <<>>, i |-> 0,
                       err |-> ErrShortURLLength]
                 ELSE [pc |-> "loop", length |-> length,
                       shortURL |-> [k \in 1..length |-> NUL], i |-> 1, err |-> Nil]
    /\ UNCHANGED <<repo, nwrites, call, base, fileVars, db, aggVars, agg, sub, unlisted>>

\* the loop has filled the slice once i has passed its last index
LoopDoneEarly(g) == g.i >= g.length

LoopDone(g) == g.i > g.length

\* lines 186-188: one iteration, d being the value of rand.Intn
GenDraw ==
    /\ gen.pc = "loop"
    /\ ~LoopDone(gen)
    /\ \E d \in 0..(Len(randGenerateSymbols) - 1) :
          gen' = [gen EXCEPT !.shortURL[gen.i] = randGenerateSymbols[d + 1],
                             !.i = @ + 1]
    /\ UNCHANGED <<repo, nwrites, call, base, fileVars, db, aggVars, agg, sub, unlisted>>

\* line 190
GenReturn ==
    /\ gen.pc = "loop"
    /\ LoopDone(gen)
    /\ gen' = [gen EXCEPT !.pc = "done"]
    /\ UNCHANGED <<repo, nwrites, call, base, fileVars, db, aggVars, agg, sub, unlisted>>

NextGen == GenCall \/ GenDraw \/ GenReturn

SpecGen == Init /\ [][NextGen]_vars

\* ------------------------------------------------------ the repository facade
ErrDB == "cannot connect to database"
NoBackend == [kind |-> "nil", m |-> NewMemStorage]

\* the file backend chosen before the database is looked at
NewRepositoryFileFirst(DatabaseDSN, FilePath, log, readable, dbFault) ==
    IF FilePath # ""
    THEN LET filestore == LoadFile(log, readable)
         IN IF filestore.err # Nil
            THEN [repo |-> NoBackend, err |-> filestore.err]
            ELSE [repo |-> [kind |-> "file", m |-> filestore.m], err |-> Nil]
    ELSE IF DatabaseDSN # ""
    THEN IF dbFault THEN [repo |-> NoBackend, err |-> ErrDB]
         ELSE [repo |-> [kind |-> "db", m |-> NewMemStorage], err |-> Nil]
    ELSE [repo |-> [kind |-> "memory", m |-> NewMemStorage], err |-> Nil]

\* NewRepository: the backend it returns (its kind, and the maps of a memory
\* or file backend) and the error. log and readable describe the file at
\* FilePath, dbFault a database that NewDB or ApplyMigrations cannot use
NewRepository(DatabaseDSN, FilePath, log, readable, dbFault) ==
    IF DatabaseDSN # ""
    THEN IF dbFault THEN [repo |-> NoBackend, err |-> ErrDB]
         ELSE [repo |-> [kind |-> "db", m |-> NewMemStorage], err |-> Nil]
    ELSE IF FilePath # ""
    THEN LET filestore == LoadFile(log, readable)
         IN IF filestore.err # Nil
            THEN [repo |-> NoBackend, err |-> filestore.err]
            ELSE [repo |-> [kind |-> "file", m |-> filestore.m], err |-> Nil]
    ELSE [repo |-> [kind |-> "memory", m |-> NewMemStorage], err |-> Nil]

\* a repository call that changed something counts as cost writes
FileStep(r, cost) ==
    /\ <<r.m, r.log, r.um>> # <<repo, fileLog, urlMapping>>
    /\ nwrites + cost <= MaxWrites
    /\ repo' = r.m
    /\ fileLog' = r.log
    /\ urlMapping' = r.um
    /\ nwrites' = nwrites + cost
    /\ UNCHANGED <<call, base, db, aggVars, auxVars>>

\* FileStorage.Save called directly (insert)
FileInsert ==
    \E o \in Owners, s \in InsertSlugs, u \in InsertURLs :
        \E r \in {FsSave(repo, fileLog, urlMapping, o, s, u)} :
            FileStep(r, 1)

\* FileStorage.SaveBatch called directly (insertBatch)
FileInsertBatch ==
    \E o \in Owners, n \in 0..(MaxWrites - nwrites) :
      \E batch \in RepoBatches(n) :
        \E r \in {FsSaveBatch(repo, fileLog, urlMapping, o, batch)} :
            FileStep(r, n)

\* FileStorage.DeleteUserShortURLs called directly (softDelete), returning nil
FileSoftDelete ==
    \E toDelete \in DeleteMaps :
      \E order \in KeyOrders(toDelete) :
        \E r \in FsDeleteUserShortURLs(repo, fileLog, urlMapping, toDelete, order) :
            r.err = Nil /\ FileStep(r, 1)

\* the histories of successful calls on the file backend (a call that fails
\* before it writes leaves everything as it was)
NextFileRepo == FileInsert \/ FileInsertBatch \/ FileSoftDelete

SpecFileRepo == Init /\ [][NextFileRepo]_vars

\* ------------------------------------------------- the postgres backend
\* The table urls as a set of rows. Of its constraints the model keeps the
\* two that the sources name: urls_short_url_key, which DB.Save looks for,
\* and urls_user_id_original_url_uq, which the last migration adds
\* DB.Save: the outcomes of the INSERT. A row that violates both constraints
\* is reported under either name; ErrFailedToSave is the error DB.Save wraps
\* when the violated constraint is none it looks for
DbSave(t, userUUID, shortURL, originalURL) ==
    LET slugTaken == \E r \in t : r.short_url = shortURL
        urlTaken == \E r \in t : /\ r.user_uuid = userUUID
                                 /\ r.original_url = originalURL
        ErrFailedToSave == "failed to save URL"
    IN IF shortURL = "" \/ originalURL = <<>>
       THEN {[err |-> ErrEmptyShortURLorURL, db |-> t]}
       ELSE IF slugTaken \/ urlTaken
       THEN {[err |-> e, db |-> t] :
                e \in {x \in {ErrShortURLExist, ErrFailedToSave} :
                          \/ x = ErrShortURLExist /\ slugTaken
                          \/ x = ErrFailedToSave /\ urlTaken}}
       ELSE {[err |-> Nil,
              db |-> t \cup {[user_uuid |-> userUUID, short_url |-> shortURL,
                              original_url |-> originalURL,
                              is_deleted |-> FALSE]}]}

\* DB.DeleteUserShortURLs: one UPDATE per owner and slug of the map
DbDeleteUserShortURLs(t, toDelete) ==
    {[r EXCEPT !.is_deleted =
         \/ @
         \/ /\ r.user_uuid \in DOMAIN toDelete
            /\ \E k \in DOMAIN toDelete[r.user_uuid] :
                  toDelete[r.user_uuid][k] = r.short_url] : r \in t}

\* DB.GetUserShortURLs: the rows of the owner that are not deleted, and
\* ErrNotFound when the SELECT yields none
DbGetUserShortURLs(t, userUUID) ==
    LET rows == {r \in t : r.user_uuid = userUUID /\ ~r.is_deleted}
        userShortURLs ==
            [s \in {r.short_url : r \in rows} |->
                (CHOOSE r \in rows : r.short_url = s).original_url]
    IN IF userShortURLs = EmptyMap
       THEN [urls |-> EmptyMap, err |-> ErrNotFound]
       ELSE [urls |-> userShortURLs, err |-> Nil]

\* one Save call made on the memory backend and on the postgres backend
BothInsert ==
    \E o \in Owners, s \in InsertSlugs, u \in InsertURLs :
        \E r \in {MemSave(repo, o, s, u)}, d \in DbSave(db, o, s, u) :
           /\ r.m # repo \/ d.db # db
           /\ nwrites < MaxWrites
           /\ repo' = r.m
           /\ db' = d.db
           /\ nwrites' = nwrites + 1
           /\ UNCHANGED <<call, base, fileVars, aggVars, auxVars>>

\* one DeleteUserShortURLs call made on both backends
BothSoftDelete ==
    \E toDelete \in DeleteMaps :
      \E order \in KeyOrders(toDelete) :
        \E r \in {MemDeleteUserShortURLs(repo, toDelete, order)} :
           /\ r.m # repo \/ DbDeleteUserShortURLs(db, toDelete) # db
           /\ nwrites < MaxWrites
           /\ repo' = r.m
           /\ db' = DbDeleteUserShortURLs(db, toDelete)
           /\ nwrites' = nwrites + 1
           /\ UNCHANGED <<call, base, fileVars, aggVars, auxVars>>

\* the same history of calls on the two backends
NextBoth == BothInsert \/ BothSoftDelete

SpecBoth == Init /\ [][NextBoth]_vars

\* ------------------------------------------------ concurrent Save calls
\* FileStorage.Save run by two goroutines: MemStorage.Save takes no lock, and
\* FileStorage.Save calls it before Store takes fs.mu.  Every read and write
\* of a map is one step.  Calls made before the goroutines start are atomic.
NoneStarted == \A p \in Procs : call[p] = Idle

PrefixInsert ==
    /\ NoneStarted
    /\ \E o \in Owners, s \in Slugs, u \in {URLa, URLb} :
          LET r == MemSave(repo, o, s, u)
          IN /\ r.m # repo
             /\ nwrites + 1 <= MaxWrites
             /\ repo' = r.m
             /\ nwrites' = nwrites + 1
    /\ UNCHANGED seqVars

PrefixDelete ==
    /\ NoneStarted
    /\ \E o \in Owners, s \in Slugs :
          LET r == MemDeleteUserShortURLs(repo, [x \in {o} |-> <<s>>], <<o>>)
          IN /\ r.m # repo
             /\ nwrites + 1 <= MaxWrites
             /\ repo' = r.m
             /\ nwrites' = nwrites + 1
    /\ UNCHANGED seqVars

\* Save is entered: the blank check of line 297
Begin(p) ==
    /\ call[p].pc = "idle"
    /\ nwrites + 1 <= MaxWrites
    /\ nwrites' = nwrites + 1
    /\ \E o \in Owners, s \in InsertSlugs, u \in InsertURLs :
          call' = [call EXCEPT ![p] =
                      IF s = "" \/ u = <<>>
                      THEN [pc |-> "done", k |-> 0, owner |-> o, slug |-> s, url |-> u,
                            err |-> ErrEmptyShortURLorURL]
                      ELSE [pc |-> "checkURL", k |-> 0, owner |-> o, slug |-> s, url |-> u,
                            err |-> Nil]]
    /\ base' = IF NoneStarted THEN repo ELSE base
    /\ UNCHANGED <<repo, fileVars, db, aggVars, auxVars>>

\* line 301
CheckURL(p) ==
    /\ call[p].pc = "checkURL"
    /\ call' = [call EXCEPT ![p] =
                   IF existsURL(repo, call[p].url)
                   THEN [@ EXCEPT !.pc = "done", !.err = ErrURLExist]
                   ELSE [@ EXCEPT !.pc = "checkSlug"]]
    /\ UNCHANGED <<repo, nwrites, base, fileVars, db, aggVars, auxVars>>

\* line 305
CheckSlug(p) ==
    /\ call[p].pc = "checkSlug"
    /\ call' = [call EXCEPT ![p] =
                   IF existsShortURL(repo, call[p].slug)
                   THEN [@ EXCEPT !.pc = "done", !.err = ErrShortURLExist]
                   ELSE [@ EXCEPT !.pc = "write", !.k = 1]]
    /\ UNCHANGED <<repo, nwrites, base, fileVars, db, aggVars, auxVars>>

\* one of lines 309-320
Write(p) ==
    /\ call[p].pc = "write"
    /\ repo' = WriteStep(repo, call[p].k, call[p].owner, NewUUID(repo),
                         call[p].slug, call[p].url)
    /\ call' = [call EXCEPT ![p] =
                   IF @.k = NumWrites THEN [@ EXCEPT !.pc = "store"]
                   ELSE [@ EXCEPT !.k = @ + 1]]
    /\ UNCHANGED <<nwrites, base, fileVars, db, aggVars, auxVars>>

Store(p) ==
    /\ call[p].pc = "store"
    /\ fileLog' = Append(fileLog, Line(NewRowUUID(fileLog), call[p].owner, call[p].slug, call[p].url, FALSE))
    /\ call' = [call EXCEPT ![p] = [@ EXCEPT !.pc = "done", !.err = Nil]]
    /\ urlMapping' = Line(NewRowUUID(fileLog), call[p].owner, call[p].slug, call[p].url, FALSE)
    /\ UNCHANGED <<repo, nwrites, base, db, aggVars, auxVars>>

NextConc ==
    \/ PrefixInsert
    \/ PrefixDelete
    \/ \E p \in Procs : Begin(p)
    \/ \E p \in Procs : CheckURL(p)
    \/ \E p \in Procs : CheckSlug(p)
    \/ \E p \in Procs : Write(p)
    \/ \E p \in Procs : Store(p)

SpecConc == Init /\ [][NextConc]_vars

\* ------------------------------------------------------- reading the backend
\* listOwned(owner): what GetUserShortURLs shows, the empty map on ErrNotFound
ListOwned(m, o) == MemGetUserShortURLs(m, o).urls

\* the non-deleted slugs of the primary index that hold url
LiveSlugsOf(m, url) ==
    {s \in DOMAIN m.SlugMemStore : m.SlugMemStore[s] = url /\ ~IsSlugDeleted(m, s)}

\* the (owner, URL) pairs under which slug is visible in some owner's listing
VisiblePairs(m, slug) ==
    {<<o, ListOwned(m, o)[slug]>> : o \in {x \in Owners : slug \in DOMAIN ListOwned(m, x)}}

\* owner o's index entry for slug is the record the primary index holds
Owns(m, o, slug) ==
    /\ Has(m.UserUUIDSlugMemStore, o)
    /\ Has(m.UserUUIDSlugMemStore[o], slug)
    /\ Has(m.SlugMemStore, slug)
    /\ m.UserUUIDSlugMemStore[o][slug] = m.SlugMemStore[slug]

\* ------------------------------------------------- the deletion aggregator
\* A receive from a channel that is closed once its one value is buffered:
\* the value and the emptied buffer, or ok = FALSE once it is drained.
ReceiveKeeping(buf) ==
    [ok |-> buf # <<>>, val |-> IF buf # <<>> THEN Head(buf) ELSE EmptyMap,
     buf |-> buf]

Receive(buf) ==
    [ok |-> buf # <<>>, val |-> IF buf # <<>> THEN Head(buf) ELSE EmptyMap,
     buf |-> IF buf # <<>> THEN Tail(buf) ELSE buf]

\* a merge that replaces the pending slugs of an owner instead of appending
MergeIntoOverwrite(into, toDelete) ==
    [o \in DOMAIN into \cup DOMAIN toDelete |->
        IF o \in DOMAIN toDelete THEN toDelete[o] ELSE into[o]]

\* lines 234-236: the slugs of toDelete appended to those pending, per owner
MergeInto(into, toDelete) ==
    [o \in DOMAIN into \cup DOMAIN toDelete |->
        (IF o \in DOMAIN into THEN into[o] ELSE <<>>)
            \o (IF o \in DOMAIN toDelete THEN toDelete[o] ELSE <<>>)]

\* how often slug s occurs in the list of owner o in map f
CountIn(f, o, s) ==
    IF o \in DOMAIN f THEN Cardinality({k \in DOMAIN f[o] : f[o][k] = s}) ELSE 0

Counted(counts, f) ==
    [o \in Owners |-> [s \in Slugs |-> counts[o][s] + CountIn(f, o, s)]]

\* the goroutines of one submission channel: the one started by the last
\* collectShortURLs (cur, and the data it holds while blocked on finalCh), and
\* whether one started by an earlier collectShortURLs is still to receive
\* from the channel (stale)
SubmitLists == {<<"s1">>, <<"s1", "s2">>}

NoFwd == [cur |-> "none", data |-> EmptyMap, stale |-> FALSE]

\* SendShortURLForDelete: a new closed channel of capacity 1 holding
\* {userUUID: shortURLs}, appended to the list
SendShortURLForDelete ==
    /\ Len(toDeleteChan) < MaxSubmits
    /\ \E userUUID \in Owners, shortURLs \in SubmitLists :
          LET data == [x \in {userUUID} |-> shortURLs]
          IN /\ toDeleteChan' = Append(toDeleteChan, <<data>>)
             /\ fwd' = Append(fwd, NoFwd)
             /\ submitted' = Counted(submitted, data)
             /\ owed' = IF /\ Len(shortURLs) = 1
                           /\ Owns(repo, userUUID, shortURLs[1])
                           /\ ~IsSlugDeleted(repo, shortURLs[1])
                        THEN owed \cup {<<userUUID, shortURLs[1]>>}
                        ELSE owed
    /\ UNCHANGED <<repo, nwrites, call, base, fileVars, db, auxVars, ch, pending, passed>>

\* lines 238-247: collectShortURLs starts a goroutine per channel of the list
\* and replaces ch, so that the goroutines of the previous call are no longer
\* read from; then what is pending, if anything, goes to the repository
collectShortURLs ==
    [i \in DOMAIN fwd |->
        [cur |-> IF i \notin unlisted THEN "ready"
                 ELSE IF fwd[i].cur = "none" THEN "none" ELSE "gone",
         data |-> EmptyMap,
         stale |-> /\ fwd[i].stale \/ fwd[i].cur = "ready"
                   /\ toDeleteChan[i] # <<>>]]

Tick ==
    /\ ch' = "collected"
    /\ fwd' = collectShortURLs
    /\ IF pending = EmptyMap
       THEN UNCHANGED <<repo, pending, passed>>
       ELSE /\ \E order \in KeyOrders(pending) :
                  repo' = MemDeleteUserShortURLs(repo, pending, order).m
            /\ passed' = Counted(passed, pending)
            /\ pending' = EmptyMap
    /\ UNCHANGED <<nwrites, call, base, fileVars, db, auxVars, toDeleteChan, submitted, owed>>

\* lines 212-213: the goroutine of the last collectShortURLs receives from its
\* channel and blocks sending to finalCh, or ends when the channel is drained
Forward(i) ==
    /\ i \in DOMAIN fwd
    /\ fwd[i].cur = "ready"
    /\ LET r == Receive(toDeleteChan[i])
       IN /\ toDeleteChan' = [toDeleteChan EXCEPT ![i] = r.buf]
          /\ fwd' = [fwd EXCEPT ![i] =
                        IF r.ok THEN [@ EXCEPT !.cur = "holding", !.data = r.val]
                        ELSE [@ EXCEPT !.cur = "gone"]]
    /\ UNCHANGED <<repo, nwrites, call, base, fileVars, db, auxVars, ch, pending, submitted,
                   passed, owed>>

\* the same goroutine of an earlier collectShortURLs: what it receives it can
\* only send to a finalCh that deleteShortURLs has replaced, where it blocks
\* for good
ForwardStale(i) ==
    /\ i \in DOMAIN fwd
    /\ fwd[i].stale
    /\ LET r == Receive(toDeleteChan[i])
       IN /\ toDeleteChan' = [toDeleteChan EXCEPT ![i] = r.buf]
          /\ fwd' = [fwd EXCEPT ![i] =
                        [@ EXCEPT !.stale = FALSE]]
    /\ UNCHANGED <<repo, nwrites, call, base, fileVars, db, auxVars, ch, pending, submitted,
                   passed, owed>>

\* lines 233-236: deleteShortURLs receives what a goroutine sends to ch
MergeStep(i) ==
    /\ i \in DOMAIN fwd
    /\ fwd[i].cur = "holding"
    /\ pending' = MergeInto(pending, fwd[i].data)
    /\ fwd' = [fwd EXCEPT ![i] = [@ EXCEPT !.cur = "ready", !.data = EmptyMap]]
    /\ UNCHANGED <<repo, nwrites, call, base, fileVars, db, toDeleteChan, ch,
                   submitted, passed, owed>>

Merge(i) == MergeStep(i) /\ UNCHANGED auxVars

\* line 233 once every goroutine has ended and finalCh is closed: the receive
\* yields a nil map, and nothing is merged
MergeNil ==
    /\ ch = "collected"
    /\ \A i \in DOMAIN fwd : fwd[i].cur \in {"none", "gone"}
    /\ UNCHANGED vars

\* the records saved before the first submission
SaveBeforeSubmit ==
    /\ toDeleteChan = <<>>
    /\ \E o \in Owners, s \in Slugs, u \in {URLa} :
          LET r == MemSave(repo, o, s, u)
          IN /\ r.m # repo
             /\ nwrites + 1 <= MaxWrites
             /\ repo' = r.m
             /\ nwrites' = nwrites + 1
    /\ UNCHANGED seqVars

NextAgg ==
    \/ SaveBeforeSubmit
    \/ SendShortURLForDelete
    \/ Tick
    \/ \E i \in 1..MaxSubmits : Forward(i)
    \/ \E i \in 1..MaxSubmits : ForwardStale(i)
    \/ \E i \in 1..MaxSubmits : Merge(i)
    \/ MergeNil

SpecAgg == Init /\ [][NextAgg]_vars

\* the timer keeps ticking, and every goroutine that can take a step and the
\* select loop that can receive eventually do
FairSpecAgg ==
    /\ SpecAgg
    /\ WF_vars(Tick)
    /\ \A i \in 1..MaxSubmits :
          WF_vars(Forward(i)) /\ WF_vars(ForwardStale(i)) /\ WF_vars(Merge(i))

\* ------------------------------- submissions racing with deleteShortURLs
\* a send to a channel made without a buffer, which nobody receives from
CanSendUnbuffered(buf) == FALSE

\* line 197: a send to a channel of capacity 1 goes through if its buffer is
\* empty, and blocks otherwise
CanSend(buf) == Len(buf) < 1

\* lines 195-198, up to the read of s.toDeleteChan in the append: the channel
\* is made and holds the unit, and the goroutine has read the slice. Nothing
\* orders this read and the write of line 198 with those of other goroutines
SubmitBegin(p) ==
    /\ sub[p].pc = "idle"
    /\ Len(toDeleteChan) < MaxSubmits
    /\ CanSend(<<>>)
    /\ \E userUUID \in Owners, shortURLs \in SubmitLists :
          LET data == [x \in {userUUID} |-> shortURLs]
              idx == Len(toDeleteChan) + 1
          IN /\ toDeleteChan' = Append(toDeleteChan, <<data>>)
             /\ fwd' = Append(fwd, NoFwd)
             /\ unlisted' = unlisted \cup {idx}
             /\ sub' = [sub EXCEPT ![p] =
                          [pc |-> "append", idx |-> idx,
                           seen |-> (DOMAIN toDeleteChan) \ unlisted]]
             /\ submitted' = Counted(submitted, data)
    /\ UNCHANGED <<repo, nwrites, call, base, fileVars, db, gen, agg, ch, pending,
                   passed, owed>>

\* line 198, the write of s.toDeleteChan: the slice as the goroutine read it
\* plus its own channel; then the deferred close and the return
SubmitEnd(p) ==
    /\ sub[p].pc = "append"
    /\ unlisted' = (DOMAIN toDeleteChan) \ (sub[p].seen \cup {sub[p].idx})
    /\ sub' = [sub EXCEPT ![p] = NoSubmit]
    /\ UNCHANGED <<repo, nwrites, call, base, fileVars, db, gen, agg, aggVars>>

\* a tick that calls the repository whatever is pending
NeedsFlushAlways(p) == TRUE

\* line 240: with nothing pending the tick makes no call
NeedsFlush(p) == p # EmptyMap

\* lines 238-243, up to the call of DeleteUserShortURLs
TickCollect ==
    /\ agg.pc = "select"
    /\ ch' = "collected"
    /\ fwd' = collectShortURLs
    /\ agg' = IF NeedsFlush(pending)
              THEN [agg EXCEPT !.pc = "deleting", !.calls = 1,
                               !.active = @ + 1, !.arg = pending]
              ELSE [agg EXCEPT !.calls = 0, !.arg = EmptyMap]
    /\ UNCHANGED <<repo, nwrites, call, base, fileVars, db, gen, sub, unlisted,
                   toDeleteChan, pending, submitted, passed, owed>>

\* a loop that keeps what is pending when the call failed, to pass it again
AfterDeleteKeepOnError(err, p) == IF err # Nil THEN p ELSE EmptyMap

\* lines 244-247: the error is logged, and shortURLsForDelete is replaced by
\* a new map whether the call failed or not
AfterDelete(err, p) == EmptyMap

\* lines 243-247: DeleteUserShortURLs returns, and the pending map is reset.
\* agg records the error of the call, the map the reset left (left), the
\* channels whose units are pending (from) and those whose units were in a
\* call that failed (failed)
DeleteReturn ==
    /\ agg.pc = "deleting"
    /\ \E order \in KeyOrders(agg.arg) :
          LET r == MemDeleteUserShortURLs(repo, agg.arg, order)
              kept == AfterDelete(r.err, pending) # EmptyMap
          IN /\ repo' = r.m
             /\ pending' = AfterDelete(r.err, pending)
             /\ agg' = [agg EXCEPT
                          !.pc = "select",
                          !.active = @ - 1,
                          !.units = IF kept THEN @ ELSE <<>>,
                          !.from = IF kept THEN @ ELSE <<>>,
                          !.err = r.err,
                          !.left = AfterDelete(r.err, pending),
                          !.failed =
                              IF r.err # Nil
                              THEN @ \cup {agg.from[k] : k \in DOMAIN agg.from}
                              ELSE @]
    /\ passed' = Counted(passed, agg.arg)
    /\ UNCHANGED <<nwrites, call, base, fileVars, db, gen, sub, unlisted,
                   toDeleteChan, ch, fwd, submitted, owed>>

\* lines 233-236, which the loop reaches only from its select; units records
\* the maps received since the last call of DeleteUserShortURLs returned
MergeAtSelect(i) ==
    /\ agg.pc = "select"
    /\ MergeStep(i)
    /\ agg' = [agg EXCEPT !.units = Append(@, fwd[i].data),
                          !.from = Append(@, i)]
    /\ UNCHANGED <<gen, sub, unlisted>>

NextSubmit ==
    \/ \E p \in Procs : SubmitBegin(p)
    \/ \E p \in Procs : SubmitEnd(p)
    \/ TickCollect
    \/ DeleteReturn
    \/ \E i \in 1..MaxSubmits : Forward(i)
    \/ \E i \in 1..MaxSubmits : ForwardStale(i)
    \/ \E i \in 1..MaxSubmits : MergeAtSelect(i)

SpecSubmit == Init /\ [][NextSubmit]_vars

\* the loop with its repository call as a step of its own, over a backend
\* that holds records, the submissions being made one at a time
NextFlush ==
    \/ SaveBeforeSubmit
    \/ SendShortURLForDelete
    \/ TickCollect
    \/ DeleteReturn
    \/ \E i \in 1..MaxSubmits : Forward(i)
    \/ \E i \in 1..MaxSubmits : ForwardStale(i)
    \/ \E i \in 1..MaxSubmits : MergeAtSelect(i)

SpecFlush == Init /\ [][NextFlush]_vars

\* ------------------------------------------------------------------- claims

\* C1: saving the same (ownerID, url) twice through SaveURL returns the same
\* slug both times, the second call carries the "already exists" signal, and
\* the store then holds exactly one non-deleted record for that URL.
C1_SaveTwice ==
    \A o \in Owners, raw \in RawURLs :
      \A rnd1, rnd2 \in [1..MaxAttempts -> Slugs] :
        LET r1 == SvcSaveURL(repo, o, raw, rnd1)
            r2 == SvcSaveURL(r1.m, o, raw, rnd2)
        IN r1.err = Nil =>
             /\ r2.slug = r1.slug
             /\ r2.err = ErrURLExist
             /\ Cardinality(LiveSlugsOf(r2.m, TrimRight(raw))) = 1

\* C2: no two non-deleted records of the same owner hold the same originalURL.
C2_NoDuplicateURLPerOwner ==
    \A o \in Owners :
      \A s, t \in DOMAIN ListOwned(repo, o) :
        s # t => ListOwned(repo, o)[s] # ListOwned(repo, o)[t]

\* C3: for every slug at most one (owner, URL) pair is visible as non-deleted
\* across the listings of all owners, and resolve agrees with it.
C3_SlugNotShared ==
    \A s \in Slugs :
      /\ Cardinality(VisiblePairs(repo, s)) <= 1
      /\ \A p \in VisiblePairs(repo, s) :
            MemGetURL(repo, s) = [url |-> p[2], err |-> Nil]

\* the store without the UUID index, whose keys are random
Indexed(m) == [m EXCEPT !.UUIDMemStore = EmptyMap]

\* the store after p's call and then q's call, each run alone, from base
InOrder(p, q) ==
    MemSave(MemSave(base, call[p].owner, call[p].slug, call[p].url).m,
            call[q].owner, call[q].slug, call[q].url).m

\* C4: when two Save calls for the same URL, or carrying the same slug, run
\* concurrently, at most one of them succeeds, and the resulting state is
\* one that some sequential order of the two calls could have produced.
C4_ConcurrentSaves ==
    \A p, q \in Procs :
      (p # q /\ call[p].pc = "done" /\ call[q].pc = "done") =>
        /\ (call[p].url = call[q].url \/ call[p].slug = call[q].slug)
              => ~(call[p].err = Nil /\ call[q].err = Nil)
        /\ Indexed(repo) \in {Indexed(InOrder(p, q)), Indexed(InOrder(q, p))}

\* C5: no delete request is lost: every slug handed to SendShortURLForDelete
\* is eventually in the argument of a DeleteUserShortURLs call, as often as
\* it was submitted, given fair ticks and a fair aggregator loop.
C5_NoRequestLost ==
    \A o \in Owners, s \in Slugs : \A n \in 1..MaxSubmits :
        (submitted[o][s] >= n) ~> (passed[o][s] >= n)

\* C6: no delete request is duplicated: a slug is in the arguments of
\* DeleteUserShortURLs at most as often as it was submitted, although every
\* tick scans the whole list of channels again.
C6_NoRequestDuplicated ==
    \A o \in Owners, s \in Slugs : passed[o][s] <= submitted[o][s]

\* a submitted slug has been passed on and, after that, a later scan has
\* found its channel drained
C6_Witness ==
    \E i \in DOMAIN fwd :
        /\ fwd[i].cur = "gone"
        /\ toDeleteChan[i] = <<>>
        /\ \E o \in Owners, s \in Slugs : passed[o][s] >= 1

\* C7: after SendShortURLForDelete(owner, [slug]) for a live record of owner,
\* eventually GetURL answers ErrShortURLIsDeleted and the slug is not listed
\* for owner, whatever other owners submit.
C7_DeleteBecomesVisible ==
    \A o \in Owners, s \in Slugs :
        (<<o, s>> \in owed) ~>
            (/\ SvcGetURL(repo, o, s).err = ErrShortURLIsDeleted
             /\ s \notin DOMAIN SvcGetUserShortURLs(repo, o).urls)

\* C8: on a tick, every unit enqueued since the previous tick is passed to
\* DeleteUserShortURLs by that same tick.
C8_PassedAtNextTick ==
    [][\A i \in DOMAIN fwd :
         (fwd[i].cur = "none" /\ fwd'[i].cur # "none") =>
            \A o \in Owners, s \in Slugs :
               CountIn(Head(toDeleteChan[i]), o, s) > 0
                  => passed'[o][s] > passed[o][s]]_vars

\* C9: softDelete(ownerA, [s]) where the non-deleted record with slug s
\* belongs to ownerB # ownerA changes nothing: resolve(s) still returns
\* ownerB's URL and s stays in listOwned(ownerB).
C9_ForeignDeleteIsNoOp ==
    \A a, b \in Owners, s \in Slugs :
      (a # b /\ Owns(repo, b, s) /\ ~Owns(repo, a, s) /\ ~IsSlugDeleted(repo, s)) =>
        LET after == MemDeleteUserShortURLs(repo, [x \in {a} |-> <<s>>], <<a>>).m
        IN /\ MemGetURL(after, s) = MemGetURL(repo, s)
           /\ s \in DOMAIN ListOwned(after, b)

\* C10: once resolve(slug) has returned Gone, every later resolve(slug)
\* returns Gone.
C10_GoneIsPermanent ==
    [][\A s \in Slugs :
          MemGetURL(repo, s).err = ErrShortURLIsDeleted
              => MemGetURL(repo', s).err = ErrShortURLIsDeleted]_vars

\* the records the backend holds: the entries of the owners' indexes, each
\* with the deleted flag of its slug
RecordsOf(m) ==
    {r \in [owner : Owners, slug : Slugs, url : {URLa, URLb}, deleted : BOOLEAN] :
        /\ Has(m.UserUUIDSlugMemStore, r.owner)
        /\ Has(m.UserUUIDSlugMemStore[r.owner], r.slug)
        /\ m.UserUUIDSlugMemStore[r.owner][r.slug] = r.url
        /\ r.deleted = IsSlugDeleted(m, r.slug)}

\* C11: GetURL(slug) returns the URL of the non-deleted record that has the
\* slug, fails with ErrShortURLIsDeleted if the record with the slug is
\* soft-deleted, and fails with ErrNotFound if no record has the slug.
C11_ResolveOutcomes ==
    \A s \in Slugs :
        LET recs == {r \in RecordsOf(repo) : r.slug = s}
        IN /\ \A r \in recs :
                ~r.deleted => MemGetURL(repo, s) = [url |-> r.url, err |-> Nil]
           /\ \A r \in recs :
                r.deleted => MemGetURL(repo, s) = [url |-> <<>>, err |-> ErrShortURLIsDeleted]
           /\ recs = {} => MemGetURL(repo, s) = [url |-> <<>>, err |-> ErrNotFound]

\* the valid inputs of SaveURL for which every generated slug collides
Colliding(m, o, raw, rnd) ==
    /\ TrimRight(raw) # <<>>
    /\ ValidateParsed(ParseURL(TrimRight(raw))) = Nil
    /\ \A k \in 1..MaxAttempts :
          MemSave(m, o, rnd[k], TrimRight(raw)).err = ErrShortURLExist

\* C12: when Save answers ErrShortURLExist on three consecutive attempts of
\* one SaveURL call, SaveURL fails with ErrShortURLExist after exactly three
\* Save calls and creates no record.
C12_ThreeCollisions ==
    \A o \in Owners, raw \in RawURLs, rnd \in [1..MaxAttempts -> Slugs] :
        Colliding(repo, o, raw, rnd) =>
            \A r \in {SvcSaveURL(repo, o, raw, rnd)} :
               /\ r.err = ErrShortURLExist
               /\ r.slug = ""
               /\ r.calls = 3
               /\ r.m = repo

\* a store in which a valid URL not yet stored meets three colliding slugs
C12_Witness ==
    \E o \in Owners, raw \in RawURLs, rnd \in [1..MaxAttempts -> Slugs] :
        /\ Colliding(repo, o, raw, rnd)
        /\ SvcSaveURL(repo, o, raw, rnd).err = ErrShortURLExist

\* C13: infrastructure errors are not retried: when Save fails with an error
\* that is neither ErrShortURLExist nor ErrURLExist, SaveURL makes no further
\* Save call and returns that failure.
C13_InfrastructureErrorNotRetried ==
    \A o \in Owners, raw \in {URLa, URLb}, rnd \in [1..MaxAttempts -> Slugs],
       faults \in [1..MaxAttempts -> BOOLEAN] :
        FileSave(repo, o, rnd[1], raw, faults[1]).err = ErrIO =>
            LET r == SvcSaveURLOn(repo, o, raw, rnd, faults)
            IN r.calls = 1 /\ r.err = ErrIO

\* C14: round trip: whenever SaveURL(owner, rawURL) returns a slug, fresh or
\* with ErrURLExist, a GetURL of that slug right after it returns rawURL with
\* its trailing slashes trimmed.
C14_RoundTrip ==
    \A o \in Owners, raw \in RawURLs, rnd \in [1..MaxAttempts -> Slugs] :
        LET r == SvcSaveURL(repo, o, raw, rnd)
        IN r.slug # "" =>
              SvcGetURL(r.m, o, r.slug) =
                  [url |-> TrimRight(raw), err |-> Nil, calls |-> 1]

\* C15: when an owner's SaveURL calls for two different valid URLs succeed,
\* they return two distinct slugs and each slug resolves to the URL it was
\* saved for, also after further saves: in every store, a successful SaveURL
\* returns a slug that no resolvable slug equals, the slug resolves to the URL
\* saved, and every slug that resolved before resolves to the same URL after.
C15_DistinctSlugsResolve ==
    \A o \in Owners, raw \in RawURLs, rnd \in [1..MaxAttempts -> Slugs] :
        \A r \in {SvcSaveURL(repo, o, raw, rnd)} :
           r.err = Nil =>
             /\ SvcGetURL(r.m, o, r.slug) =
                   [url |-> TrimRight(raw), err |-> Nil, calls |-> 1]
             /\ \A s \in Slugs :
                   SvcGetURL(repo, o, s).err = Nil =>
                      /\ s # r.slug
                      /\ SvcGetURL(r.m, o, s) = SvcGetURL(repo, o, s)

\* an owner holds a resolvable record and saves a different URL successfully
C15_Witness ==
    \E o \in Owners, raw \in RawURLs, rnd \in [1..MaxAttempts -> Slugs] :
        /\ SvcSaveURL(repo, o, raw, rnd).err = Nil
        /\ \E s \in DOMAIN ListOwned(repo, o) :
              /\ ListOwned(repo, o)[s] # TrimRight(raw)
              /\ SvcGetURL(repo, o, s).err = Nil

\* the URLs of the batches the fail-fast check draws: two valid ones, an
\* empty one, one with a wrong scheme
FailFastURLs ==
    {URLa, URLb \o <<"/">>, <<"/">>, <<"ftp", ":", "/", "/", "a">>}
FailFastBatches ==
    UNION {{[i \in 1..n |-> [UUID |-> -i, OriginalURL |-> us[i]]] :
               us \in [1..n -> FailFastURLs]} : n \in 1..2}
\* what SaveURL accepts: non-empty after trimming, http(s), with a host
ValidURL(u) ==
    TrimRight(u) # <<>> /\ ValidateParsed(ParseURL(TrimRight(u))) = Nil
ValidationErrors ==
    {ErrEmptyURL, ErrInvalidURLFormat, ErrWrongHTTPScheme, ErrMustIncludeHost}

\* C16: SaveBatch is fail-fast: with an invalid item in the batch it returns
\* a validation error after zero backend calls and nothing is persisted, also
\* not the valid items before the invalid one; with valid items only, the
\* whole batch goes to the backend in exactly one SaveBatch call.
C16_BatchFailFast ==
    \A o \in Owners, batch \in FailFastBatches :
      \A rnd \in [1..Len(batch) -> Slugs] :
        \A r \in {SvcSaveBatch(repo, o, batch, rnd)} :
           IF \E i \in 1..Len(batch) : ~ValidURL(batch[i].OriginalURL)
           THEN r.err \in ValidationErrors /\ r.calls = 0 /\ r.m = repo
           ELSE /\ r.calls = 1
                /\ r.m = MemSaveBatch(repo, o, BatchResult(batch, rnd)).m

\* a store with a record, and a batch whose valid first item would be stored
\* alone but is followed by an invalid item
C16_Witness ==
    /\ repo # NewMemStorage
    /\ \E o \in Owners, batch \in FailFastBatches :
         \E rnd \in [1..Len(batch) -> Slugs] :
            /\ Len(batch) = 2
            /\ ~ValidURL(batch[2].OriginalURL)
            /\ SvcSaveBatch(repo, o, SubSeq(batch, 1, 1), rnd).err = Nil
            /\ SvcSaveBatch(repo, o, batch, rnd).err \in ValidationErrors

\* URLs that SaveURL must reject, each with the error it must return: empty,
\* or only slashes; "ftp://a" and "a" (no http scheme); "http:///" and
\* "http:" (no host)
InvalidCases ==
    {[raw |-> <<>>, err |-> ErrEmptyURL],
     [raw |-> <<"/">>, err |-> ErrEmptyURL],
     [raw |-> <<"/", "/">>, err |-> ErrEmptyURL],
     [raw |-> <<"ftp", ":", "/", "/", "a">>, err |-> ErrWrongHTTPScheme],
     [raw |-> <<"a">>, err |-> ErrWrongHTTPScheme],
     [raw |-> <<"http", ":", "/", "/", "/">>, err |-> ErrMustIncludeHost],
     [raw |-> <<"http", ":">>, err |-> ErrMustIncludeHost]}

\* C17: a SaveURL whose URL is empty after trimming, has a scheme other than
\* http/https or has no host returns the matching validation error without
\* calling the backend, so the store is unchanged.
C17_InvalidURLRejected ==
    \A o \in Owners, c \in InvalidCases, rnd \in [1..MaxAttempts -> Slugs] :
        \A r \in {SvcSaveURL(repo, o, c.raw, rnd)} :
           r.err = c.err /\ r.slug = "" /\ r.calls = 0 /\ r.m = repo

\* a store that holds a record, where a URL without a host is rejected
C17_Witness ==
    /\ repo # NewMemStorage
    /\ \E o \in Owners, rnd \in [1..MaxAttempts -> Slugs] :
          SvcSaveURL(repo, o, <<"http", ":", "/", "/", "/">>, rnd).err
              = ErrMustIncludeHost

\* C18: GetURL with a blank slug fails with ErrEmptyID without calling the
\* backend; for a slug the store does not hold the caller gets ErrNotFound,
\* for a slug whose deleted flag is set ErrShortURLIsDeleted, never the other.
C18_GetURLErrors ==
    \A o \in Owners :
        /\ SvcGetURL(repo, o, "") = [url |-> <<>>, err |-> ErrEmptyID, calls |-> 0]
        /\ \A s \in Slugs :
              /\ ~Has(repo.SlugMemStore, s)
                    => SvcGetURL(repo, o, s).err = ErrNotFound
              /\ (Has(repo.SlugMemStore, s) /\ Has(repo.IsSlugDeletedMemStore, s)
                    /\ repo.IsSlugDeletedMemStore[s])
                    => SvcGetURL(repo, o, s).err = ErrShortURLIsDeleted

\* a store with a soft-deleted slug and a slug never stored
C18_Witness ==
    \E o \in Owners, s, t \in Slugs :
        /\ SvcGetURL(repo, o, s).err = ErrShortURLIsDeleted
        /\ SvcGetURL(repo, o, t).err = ErrNotFound

\* C19: GetUserShortURLs(owner) returns exactly the owner's non-deleted
\* records as a slug -> URL mapping: every listed slug resolves to the listed
\* URL and is listed for no other owner, every non-deleted record of the
\* owner is listed, and the call fails with ErrNotFound if the owner has no
\* records.
C19_ListOwned ==
    \A o \in Owners :
        \A l \in {SvcGetUserShortURLs(repo, o)} :
           /\ \A s \in DOMAIN l.urls :
                 /\ SvcGetURL(repo, o, s).err = Nil
                 /\ SvcGetURL(repo, o, s).url = l.urls[s]
                 /\ \A p \in Owners \ {o} : s \notin DOMAIN ListOwned(repo, p)
           /\ \A r \in RecordsOf(repo) :
                 (r.owner = o /\ ~r.deleted) =>
                     /\ l.err = Nil
                     /\ r.slug \in DOMAIN l.urls
                     /\ l.urls[r.slug] = r.url
           /\ {r \in RecordsOf(repo) : r.owner = o} = {} => l.err = ErrNotFound

\* C20: URL uniqueness is scoped per owner. Save(owner, slug, url) fails with
\* ErrURLExist only if that owner has a non-deleted record for url, and the
\* slug that SaveURL gets from GetShortURL after ErrURLExist is the slug of a
\* non-deleted record of that owner for the URL.
C20_URLScopePerOwner ==
    \A o \in Owners, u \in {URLa, URLb} :
        /\ \A s \in Slugs :
              MemSave(repo, o, s, u).err = ErrURLExist =>
                  \E r \in RecordsOf(repo) :
                      r.owner = o /\ r.url = u /\ ~r.deleted
        /\ \A rnd \in [1..MaxAttempts -> Slugs] :
              \A a \in {SvcSaveURL(repo, o, u, rnd)} :
                 a.err = ErrURLExist =>
                     \E r \in RecordsOf(repo) :
                         r.owner = o /\ r.url = u /\ r.slug = a.slug /\ ~r.deleted

\* C30: if Save answers ErrShortURLExist on k consecutive attempts, k < 3, and
\* then succeeds, SaveURL returns the slug of the successful attempt with no
\* error after exactly k + 1 Save calls, and exactly one record, under the
\* returned slug and for the URL, has been created.
C30_RetryThenSuccess ==
    \A o \in Owners, u \in {URLa, URLb}, rnd \in [1..MaxAttempts -> Slugs] :
        \A k \in 0..(MaxAttempts - 1) :
            (/\ \A i \in 1..k : MemSave(repo, o, rnd[i], u).err = ErrShortURLExist
             /\ MemSave(repo, o, rnd[k + 1], u).err = Nil)
            => \A r \in {SvcSaveURL(repo, o, u, rnd)} :
                  /\ r.err = Nil
                  /\ r.slug = rnd[k + 1]
                  /\ r.calls = k + 1
                  /\ \E id \in DOMAIN r.m.UUIDMemStore :
                        /\ DOMAIN r.m.UUIDMemStore
                              = DOMAIN repo.UUIDMemStore \cup {id}
                        /\ id \notin DOMAIN repo.UUIDMemStore
                        /\ r.m.UUIDMemStore[id] = r.slug
                  /\ Owns(r.m, o, r.slug)
                  /\ r.m.SlugMemStore[r.slug] = u
                  /\ ~IsSlugDeleted(r.m, r.slug)

\* a store where a URL is saved at the third attempt, after two collisions
C30_Witness ==
    \E o \in Owners, u \in {URLa, URLb}, rnd \in [1..MaxAttempts -> Slugs] :
        /\ MemSave(repo, o, rnd[1], u).err = ErrShortURLExist
        /\ MemSave(repo, o, rnd[2], u).err = ErrShortURLExist
        /\ SvcSaveURL(repo, o, u, rnd).err = Nil
        /\ SvcSaveURL(repo, o, u, rnd).calls = MaxAttempts

\* C23: after any sequence of successful Save, SaveBatch and
\* DeleteUserShortURLs calls on the file backend, a fresh backend that
\* replays the file answers GetURL(slug) for every slug (URL, deleted or not
\* found) and GetUserShortURLs(owner) for every owner as the backend that made
\* the calls does.
C23_ReplayEquivalent ==
    \A r \in {LoadFile(fileLog, TRUE)} :
        /\ r.err = Nil
        /\ \A s \in Slugs : MemGetURL(r.m, s) = MemGetURL(repo, s)
        /\ \A o \in Owners :
              MemGetUserShortURLs(r.m, o) = MemGetUserShortURLs(repo, o)

\* C24: Save and SaveBatch only append to the file, and DeleteUserShortURLs
\* rewrites it so that it holds exactly one line per entry of the owners'
\* index, each line with that record's own owner, slug and URL and its
\* current deleted flag, whatever correlation IDs the batches carried.
C24_FileShape ==
    [][/\ (FileInsert \/ FileInsertBatch) =>
             /\ Len(fileLog') >= Len(fileLog)
             /\ SubSeq(fileLog', 1, Len(fileLog)) = fileLog
       /\ FileSoftDelete =>
             /\ {[owner |-> fileLog'[i].UserUUID, slug |-> fileLog'[i].ShortURL,
                  url |-> fileLog'[i].OriginalURL,
                  deleted |-> fileLog'[i].IsDeleted] : i \in DOMAIN fileLog'}
                   = RecordsOf(repo')
             /\ Len(fileLog') = Cardinality(RecordsOf(repo'))]_vars

\* C27: DeleteUserShortURLs given a map with an owner the backend does not
\* know returns ErrInvalidUserUUID and marks no slug of any owner of the map;
\* on the file backend the file is left as it was, so flags and file agree
\* as before the call.
C27_UnknownOwnerChangesNothing ==
    \A toDelete \in DeleteMaps :
        (\E o \in DOMAIN toDelete : ~Has(repo.UserUUIDSlugMemStore, o)) =>
            \A order \in KeyOrders(toDelete) :
               \A r \in FsDeleteUserShortURLs(repo, fileLog, urlMapping,
                                              toDelete, order) :
                  /\ r.err = ErrInvalidUserUUID
                  /\ \A s \in Slugs : IsSlugDeleted(r.m, s) = IsSlugDeleted(repo, s)
                  /\ r.log = fileLog

\* C25: NewRepository returns the database backend whenever a DSN is set,
\* also when a file path is set; otherwise the file backend when a file path
\* is set, after replaying the file, and an error instead of a backend when
\* the replay fails; otherwise the memory backend.
C25_BackendPrecedence ==
    \A dsn \in {"", "postgres://db"}, path \in {"", "/tmp/urls.json"},
       readable \in BOOLEAN,
       dbFault \in BOOLEAN, log \in {fileLog, Append(fileLog, Corrupt)} :
        \A r \in {NewRepository(dsn, path, log, readable, dbFault)} :
           /\ (dsn # "" /\ ~dbFault) => r.err = Nil /\ r.repo.kind = "db"
           /\ (dsn # "" /\ dbFault) => r.err # Nil /\ r.repo = NoBackend
           /\ (dsn = "" /\ path # "" /\ readable /\ log = fileLog) =>
                 /\ r.err = Nil
                 /\ r.repo.kind = "file"
                 /\ \A i \in DOMAIN log :
                       /\ Has(r.repo.m.SlugMemStore, log[i].ShortURL)
                       /\ Has(r.repo.m.UserUUIDSlugMemStore, log[i].UserUUID)
           /\ (dsn = "" /\ path # "" /\ ~(readable /\ log = fileLog)) =>
                 r.err # Nil /\ r.repo = NoBackend
           /\ (dsn = "" /\ path = "") =>
                 r.err = Nil /\ r.repo = [kind |-> "memory", m |-> NewMemStorage]

\* a file with rows, where a DSN wins over the file path, the file backend is
\* returned with the rows loaded, and a corrupt line makes construction fail
C25_Witness ==
    /\ Len(fileLog) >= 2
    /\ NewRepository("postgres://db", "/tmp/urls.json", fileLog, TRUE, FALSE).repo.kind
          = "db"
    /\ NewRepository("", "/tmp/urls.json", fileLog, TRUE, FALSE).repo.kind = "file"
    /\ NewRepository("", "/tmp/urls.json", Append(fileLog, Corrupt), TRUE, FALSE).err
          = ErrDecode

\* C26: generateShortURL(length) fails with ErrShortURLLength for every
\* length <= 0 and otherwise returns a token of exactly length symbols, each
\* one of the 52 upper- and lower-case letters.
C26_Generate ==
    LET Letters ==
            {"a", "b", "c", "d", "e", "f", "g", "h", "i", "j", "k", "l", "m",
             "n", "o", "p", "q", "r", "s", "t", "u", "v", "w", "x", "y", "z",
             "A", "B", "C", "D", "E", "F", "G", "H", "I", "J", "K", "L", "M",
             "N", "O", "P", "Q", "R", "S", "T", "U", "V", "W", "X", "Y", "Z"}
    IN /\ Cardinality(Letters) = 52
       /\ gen.pc = "done" =>
             IF gen.length <= 0
             THEN gen.err = ErrShortURLLength /\ gen.shortURL = <<>>
             ELSE /\ gen.err = Nil
                  /\ Len(gen.shortURL) = gen.length
                  /\ \A k \in 1..gen.length : gen.shortURL[k] \in Letters

\* a token of the greatest length has been returned whose symbols are the
\* last letter of the constant and a lower-case letter
C26_Witness ==
    /\ gen.pc = "done"
    /\ gen.length = MaxTokenLen
    /\ gen.shortURL[1] = "Z"
    /\ gen.shortURL[MaxTokenLen] = "a"

\* C28: when two SendShortURLForDelete calls run concurrently, the units of
\* both are retained, for every interleaving of the two calls with each other
\* and with the collection of the loop: once both calls have returned, the
\* slice Service.toDeleteChan holds every channel that was made.
C28_BothRetained ==
    (\A p \in Procs : sub[p].pc = "idle") => unlisted = {}

\* C22: DeleteUserShortURLs is called from the one deleteShortURLs loop only:
\* no two calls are in progress at the same time, a tick makes at most one
\* call, and no call is made with an empty map (a tick with nothing pending
\* makes none).
C22_SingleLoopCalls ==
    /\ agg.active <= 1
    /\ agg.calls <= 1
    /\ agg.active = (IF agg.pc = "deleting" THEN 1 ELSE 0)
    /\ agg.pc = "deleting" => agg.arg # EmptyMap /\ agg.calls = 1
    /\ agg.calls = 0 => agg.pc = "select" /\ agg.arg = EmptyMap

\* a tick with nothing pending made no call although a unit was submitted and
\* is on its way, and an earlier tick made one
C22_Witness ==
    /\ agg.pc = "select"
    /\ agg.calls = 0
    /\ ch = "collected"
    /\ \E o \in Owners, s \in Slugs : passed[o][s] > 0
    /\ \E i \in DOMAIN fwd : fwd[i].cur = "ready"

\* C21: SendShortURLForDelete never blocks: whatever the deleteShortURLs loop
\* is doing (waiting in its select before or after a collection, or inside
\* the call of DeleteUserShortURLs), a call can begin and a call that has
\* begun can return, without a step of the loop; and when it returns its
\* unit is still in its channel, so that no call of DeleteUserShortURLs with
\* that unit has happened yet.
C21_NeverBlocks ==
    \A p \in Procs :
        /\ (sub[p].pc = "idle" /\ Len(toDeleteChan) < MaxSubmits)
              => ENABLED SubmitBegin(p)
        /\ sub[p].pc = "append"
              => /\ ENABLED SubmitEnd(p)
                 /\ toDeleteChan[sub[p].idx] # <<>>
                 /\ fwd[sub[p].idx] = NoFwd

\* a call is about to return while the loop is inside DeleteUserShortURLs
\* with the unit of an earlier call, after a collection
C21_Witness ==
    /\ agg.pc = "deleting"
    /\ ch = "collected"
    /\ \E p \in Procs : sub[p].pc = "append"

\* the slugs of owner o in the units from the i-th on, in the order of the
\* units
RECURSIVE SlugsOf(_, _, _)
SlugsOf(units, o, i) ==
    IF i > Len(units) THEN <<>>
    ELSE (IF o \in DOMAIN units[i] THEN units[i][o] ELSE <<>>)
             \o SlugsOf(units, o, i + 1)

\* C29: the map passed to DeleteUserShortURLs holds, for each owner, exactly
\* the concatenation of the slug lists of the units of that owner which the
\* loop received since its previous call: its owners are those of the units,
\* no slug of a received unit is missing and none is under another owner.
C29_MergedPerOwner ==
    agg.pc = "deleting" =>
        /\ DOMAIN agg.arg
              = UNION {DOMAIN agg.units[i] : i \in DOMAIN agg.units}
        /\ \A o \in DOMAIN agg.arg : agg.arg[o] = SlugsOf(agg.units, o, 1)

\* a call whose map merges two units of one owner
C29_Witness ==
    /\ agg.pc = "deleting"
    /\ Len(agg.units) = 2
    /\ DOMAIN agg.units[1] = DOMAIN agg.units[2]
    /\ \E o \in DOMAIN agg.arg : Len(agg.arg[o]) = 3

\* C31: Save checks its failure conditions in a fixed order: a blank slug or
\* URL fails with ErrEmptyShortURLorURL also when the URL is stored; a call
\* whose URL GetShortURL finds fails with ErrURLExist also when the slug is
\* taken; a call whose slug alone is taken (GetURL resolves it) fails with
\* ErrShortURLExist; and every failing call leaves all the maps unchanged.
C31_InsertCheckOrder ==
    \A o \in Owners, s \in InsertSlugs, u \in InsertURLs :
        LET r == MemSave(repo, o, s, u)
            blank == s = "" \/ u = <<>>
            urlStored == MemGetShortURL(repo, u).err = Nil
            slugTaken == MemGetURL(repo, s).err = Nil
        IN /\ blank => r.err = ErrEmptyShortURLorURL
           /\ (~blank /\ urlStored) => r.err = ErrURLExist
           /\ (~blank /\ ~urlStored /\ slugTaken) => r.err = ErrShortURLExist
           /\ (~blank /\ ~urlStored /\ ~slugTaken) => r.err = Nil
           /\ r.err # Nil => r.m = repo

\* a URL is stored under a slug and another slug is taken by another URL:
\* the call with a blank slug and the stored URL, and the call with the
\* stored URL and the other taken slug, are both rejected
C31_Witness ==
    \E s, t \in Slugs :
        /\ s # t
        /\ MemGetShortURL(repo, URLa) = [slug |-> s, err |-> Nil]
        /\ MemGetURL(repo, t) = [url |-> URLb, err |-> Nil]
        /\ MemSave(repo, "u2", "", URLa).err = ErrEmptyShortURLorURL
        /\ MemSave(repo, "u2", t, URLa).err = ErrURLExist

\* C32: DeleteUserShortURLs is idempotent: a call that succeeded, applied a
\* second time, or applied with every slug repeated in its list, succeeds and
\* leaves the maps as the single call left them; for a single owner the same
\* holds of the failing call; and slugs that the owner does not have, or that
\* are deleted already, are skipped without an error and without a change.
C32_DeleteIdempotent ==
    \A toDelete \in DeleteMaps :
      \A o1, o2 \in KeyOrders(toDelete) :
        LET r1 == MemDeleteUserShortURLs(repo, toDelete, o1)
            r2 == MemDeleteUserShortURLs(r1.m, toDelete, o2)
            doubled == [o \in DOMAIN toDelete |-> toDelete[o] \o toDelete[o]]
            rr == MemDeleteUserShortURLs(repo, doubled, o1)
        IN /\ (r1.err = Nil \/ Cardinality(DOMAIN toDelete) = 1)
                 => r2 = r1 /\ rr = r1
           /\ \A o \in DOMAIN toDelete :
                 (/\ DOMAIN toDelete = {o}
                  /\ Has(repo.UserUUIDSlugMemStore, o)
                  /\ \A k \in DOMAIN toDelete[o] :
                        \/ ~Has(repo.UserUUIDSlugMemStore[o], toDelete[o][k])
                        \/ IsSlugDeleted(repo, toDelete[o][k]))
                 => r1 = [err |-> Nil, m |-> repo]

\* an owner has a live record, a deleted one is there too, and the owner's call
\* naming both marks the live one
C32_Witness ==
    \E o \in Owners :
        /\ Has(repo.UserUUIDSlugMemStore, o)
        /\ DOMAIN repo.UserUUIDSlugMemStore[o] = {"s1", "s2"}
        /\ IsSlugDeleted(repo, "s1")
        /\ ~IsSlugDeleted(repo, "s2")
        /\ MemDeleteUserShortURLs(repo, [x \in {o} |-> <<"s1", "s2">>], <<o>>).m
              # repo

\* C33: after a restart that replays the file, URL uniqueness is still
\* enforced: for every URL that had a non-deleted record before the restart,
\* GetShortURL of the fresh backend returns the slug of such a record and Save
\* of the URL fails with ErrURLExist, also when the file holds a deleted
\* record of the URL and was rewritten by DeleteUserShortURLs, in whatever
\* order the rewrite put the lines.
C33_UniqueAfterReplay ==
    \A r \in {LoadFile(fileLog, TRUE)} :
        \A u \in {URLa, URLb} :
            LiveSlugsOf(repo, u) # {} =>
                /\ r.err = Nil
                /\ MemGetShortURL(r.m, u).err = Nil
                /\ MemGetShortURL(r.m, u).slug \in LiveSlugsOf(repo, u)
                /\ \A o \in Owners, s \in Slugs :
                      MemSave(r.m, o, s, u).err = ErrURLExist

\* C34: the memory and the postgres backend answer GetUserShortURLs alike:
\* after the same history of Save and DeleteUserShortURLs calls both give the
\* same map or the same error for every owner, also for an owner all of
\* whose records are deleted.
C34_ListOwnedAlike ==
    \A o \in Owners :
        MemGetUserShortURLs(repo, o) = DbGetUserShortURLs(db, o)

\* C35: in the memory backend the owners' index agrees with the primary
\* index after any sequence of Save, SaveBatch and DeleteUserShortURLs calls:
\* every entry slug -> url of an owner's index has SlugMemStore[slug] = url,
\* no slug is in the index of two owners, and URLMemStore maps the URL of
\* every non-deleted record to the slug of that record.
C35_IndexesAgree ==
    LET idx == repo.UserUUIDSlugMemStore
    IN /\ \A o \in DOMAIN idx : \A s \in DOMAIN idx[o] :
             Has(repo.SlugMemStore, s) /\ repo.SlugMemStore[s] = idx[o][s]
       /\ \A o1, o2 \in DOMAIN idx :
             o1 # o2 => DOMAIN idx[o1] \cap DOMAIN idx[o2] = {}
       /\ \A r \in RecordsOf(repo) :
             ~r.deleted => /\ Has(repo.URLMemStore, r.url)
                           /\ repo.URLMemStore[r.url] = r.slug

\* C36: on the file backend a Save or SaveBatch that returns an I/O error
\* from writing the file leaves the maps as they were: no slug of the call
\* resolves, and a SaveURL of the same URL made afterwards is not answered
\* with ErrURLExist.
C36_IOErrorLeavesIndex ==
    /\ \A o \in Owners, s \in Slugs, u \in {URLa, URLb} :
          LET r == FileSave(repo, o, s, u, TRUE)
          IN r.err = ErrIO =>
                /\ r.m = repo
                /\ MemGetURL(r.m, s).err # Nil
                /\ \A rnd \in [1..MaxAttempts -> Slugs] :
                      SvcSaveURLOn(r.m, o, u, rnd, NoFaults).err # ErrURLExist
    /\ \A o \in Owners, batch \in RepoBatches(1) :
          LET r == FileSaveBatch(repo, o, batch, TRUE)
          IN r.err = ErrIO =>
                /\ r.m = repo
                /\ MemGetURL(r.m, batch[1].ShortURL).err # Nil

\* C37: a SaveBatch of the memory backend that returns an error leaves all
\* the maps unchanged: it fails exactly when some item is blank, has a stored
\* URL or a taken slug, with one of the three errors, and then no item of
\* the batch has been written, the items before the rejected one included.
C37_RejectedBatchWritesNothing ==
    \A o \in Owners, n \in 0..2 : \A batch \in RepoBatches(n) :
        LET r == MemSaveBatch(repo, o, batch)
            bad == {i \in DOMAIN batch :
                       \/ batch[i].ShortURL = ""
                       \/ MemGetShortURL(repo, batch[i].OriginalURL).err = Nil
                       \/ MemGetURL(repo, batch[i].ShortURL).err = Nil}
        IN /\ r.err # Nil <=> bad # {}
           /\ r.err # Nil =>
                 /\ r.err \in {ErrEmptyShortURLorURL, ErrURLExist, ErrShortURLExist}
                 /\ r.m = repo
                 /\ \A s \in Slugs : MemGetURL(r.m, s) = MemGetURL(repo, s)

\* a batch whose first item could be saved and whose second item has a
\* stored URL is rejected, for an owner who has no index yet
C37_Witness ==
    \E o \in Owners, batch \in RepoBatches(2) :
        /\ MemSave(repo, o, batch[1].ShortURL, batch[1].OriginalURL).err = Nil
        /\ MemGetShortURL(repo, batch[2].OriginalURL).err = Nil
        /\ MemSaveBatch(repo, o, batch).err = ErrURLExist
        /\ ~Has(repo.UserUUIDSlugMemStore, o)

\* C38: when the DeleteUserShortURLs call of a tick returns an error, its
\* units are discarded: the reset leaves the pending map empty, as it does
\* after a call that succeeded, and no unit of a failed call is pending again
\* afterwards, so that none is passed to DeleteUserShortURLs by a later tick.
C38_FailedCallDiscards ==
    /\ agg.left = EmptyMap
    /\ agg.pc = "select" /\ agg.calls = 1 /\ agg.from = <<>>
          => pending = EmptyMap
    /\ \A k \in DOMAIN agg.from : agg.from[k] \notin agg.failed
    /\ \A i \in agg.failed : toDeleteChan[i] = <<>> /\ fwd[i].data = EmptyMap

\* a call has failed, and a later tick is passing the unit of another
\* submission
C38_Witness ==
    /\ agg.err = ErrInvalidUserUUID
    /\ agg.failed # {}
    /\ agg.pc = "deleting"
    /\ agg.from # <<>>

\* C39: when the only record of a URL is soft-deleted, SaveURL of that URL,
\* unless every slug it generates is taken, succeeds without ErrURLExist and
\* creates a non-deleted record of the caller whose slug GetURL resolves to
\* the URL and which GetUserShortURLs of the caller lists.
C39_SaveAfterDelete ==
    \A u \in {URLa, URLb} :
        LET recs == {x \in RecordsOf(repo) : x.url = u}
        IN (Cardinality(recs) = 1 /\ \A x \in recs : x.deleted) =>
              \A o \in Owners, rnd \in [1..MaxAttempts -> Slugs] :
                  ~Colliding(repo, o, u, rnd) =>
                      \A r \in {SvcSaveURL(repo, o, u, rnd)} :
                         /\ r.err = Nil
                         /\ MemGetURL(r.m, r.slug) = [url |-> u, err |-> Nil]
                         /\ Has(ListOwned(r.m, o), r.slug)
                         /\ ListOwned(r.m, o)[r.slug] = u
                         /\ [owner |-> o, slug |-> r.slug, url |-> u,
                             deleted |-> FALSE] \in RecordsOf(r.m)

====
